---- MODULE Spec2Model ----
(***************************************************************************)
(* A model of the Lox tree-walking interpreter: the host (main.py), the    *)
(* scanner (scanner.py), the parser (parser.py), the resolver              *)
(* (resolver.py), the environments (environment.py) and the evaluator      *)
(* (interpreter.py, LoxFunction in parser.py).                             *)
(*                                                                         *)
(* The input of one run is the outcome of Scanner.scan_tokens and          *)
(* Parser.parse on a source text: the list of statements the parser        *)
(* returns and the number of reports the scanner and the parser made.      *)
(* The source texts are the ones of the catalogue below.                   *)
(*                                                                         *)
(* A Python exception that is neither LoxRuntimeError nor ReturnError      *)
(* (AttributeError, TypeError, NotImplementedError, ZeroDivisionError) is  *)
(* an internal failure: nothing catches it, the process prints a           *)
(* traceback and ends with status 1.                                       *)
(***************************************************************************)
EXTENDS Integers, Sequences, FiniteSets, TLC

(* ------------------------------ bounds -------------------------------- *)

\* number of lines read by one REPL session
MaxLines == 2

\* number of iterations one execution of a while statement may make
MaxIter == 4

\* length of the longest parameter list and argument list given to the
\* parser
MaxList == 257

\* number of declarations in a statement list given to the resolver
MaxDeclarations == 2

\* number of environments made besides the global one
MaxEnvironments == 1

\* number of characters of a source text given to the scanner
MaxChars == 5

(* ------------------------- program constants -------------------------- *)

\* parser.py:299: the length of the parameter list from which on a further
\* parameter is reported
MaxParameters == 255

\* parser.py:483: the length of the argument list from which on it is
\* reported
MaxArguments == 255

(* --------------------------- runtime values --------------------------- *)

Nil == [tag |-> "nil"]

Bool(b) == [tag |-> "bool", b |-> b]

Num(n) == [tag |-> "num", n |-> n]

Str(s) == [tag |-> "str", s |-> s]

\* the environments are the elements of the sequence heap; an environment
\* is referred to by its index, and 0 stands for None
NoEnv == 0

\* interpreter.py:48: the process-wide global environment
global_env == 1

\* interpreter.py:36-45
Clock == [tag |-> "native"]

\* parser.py:29-35. obj is the identity of the function object, and run
\* tells the parse the declaration node comes from: two parses of the same
\* text make distinct node objects
LoxFunction(declaration, closure, run, obj) ==
    [tag |-> "fn", declaration |-> declaration, closure |-> closure,
     run |-> run, obj |-> obj]

\* parser.py:18-26
LoxCallable(v) == v.tag \in {"native", "fn"}

\* parser.py:37-39, interpreter.py:37-39
arity(callee) ==
    IF callee.tag = "native" THEN 0 ELSE Len(callee.declaration.params)

(* ------------------------------ tokens -------------------------------- *)

Token(type, lexeme, line) == [type |-> type, lexeme |-> lexeme, line |-> line]

Ident(lexeme, line) == Token("IDENTIFIER", lexeme, line)

\* an absent optional (Python's None) in the syntax tree
None == [type |-> "None"]

IsNone(x) == x.type = "None"

\* scanner.py:70-74: tokens are equal, and hash equal, on (type, lexeme,
\* literal); the identifiers used as dictionary keys are represented by
\* their lexeme, and the key None by the empty string
Key(name) == IF IsNone(name) THEN "" ELSE name.lexeme

(* ---------------------------- syntax tree ----------------------------- *)

\* id is the identity of an expression object within its parse
Assign(id, name, value) == [type |-> "Assign", id |-> id, name |-> name, value |-> value]

Binary(left, operator, right) ==
    [type |-> "Binary", left |-> left, operator |-> operator, right |-> right]

Call(callee, paren, arguments) ==
    [type |-> "Call", callee |-> callee, paren |-> paren, arguments |-> arguments]

Grouping(expression) == [type |-> "Grouping", expression |-> expression]

Literal(value) == [type |-> "Literal", value |-> value]

Logical(left, operator, right) ==
    [type |-> "Logical", left |-> left, operator |-> operator, right |-> right]

Unary(operator, right) == [type |-> "Unary", operator |-> operator, right |-> right]

Variable(id, name) == [type |-> "Variable", id |-> id, name |-> name]

Expression(expression) == [type |-> "Expression", expression |-> expression]

Function(name, params, body) ==
    [type |-> "Function", name |-> name, params |-> params, body |-> body]

If(condition, then_branch, else_branch) ==
    [type |-> "If", condition |-> condition, then_branch |-> then_branch,
     else_branch |-> else_branch]

\* parser.py:167-171 (class Print)
PrintStmt(expression) == [type |-> "Print", expression |-> expression]

Return(keyword, value) == [type |-> "Return", keyword |-> keyword, value |-> value]

Var(name, initializer) == [type |-> "Var", name |-> name, initializer |-> initializer]

While(condition, body) == [type |-> "While", condition |-> condition, body |-> body]

Block(statements) == [type |-> "Block", statements |-> statements]

(* ---------------------------- environments ---------------------------- *)

EmptyDict == [k \in {} |-> Nil]

\* environment.py:11-13
Environment(enclosing) == [enclosing |-> enclosing, values |-> EmptyDict]

\* environment.py:24-25
Environment_define(hp, env, name, value) ==
    [hp EXCEPT ![env].values = (Key(name) :> value) @@ @]

RECURSIVE Environment_get(_, _, _)
\* environment.py:27-33
Environment_get(hp, env, name) ==
    IF Key(name) \in DOMAIN hp[env].values
    THEN [sig |-> "normal", val |-> hp[env].values[Key(name)]]
    ELSE IF hp[env].enclosing # NoEnv
         THEN Environment_get(hp, hp[env].enclosing, name)
         ELSE [sig |-> "LoxRuntimeError", token |-> name,
               message |-> "Undefined variable"]

RECURSIVE Environment_assign(_, _, _, _)
\* environment.py:35-44
Environment_assign(hp, env, name, value) ==
    IF Key(name) \in DOMAIN hp[env].values
    THEN [sig |-> "normal", heap |-> [hp EXCEPT ![env].values[Key(name)] = value]]
    ELSE IF hp[env].enclosing # NoEnv
         THEN Environment_assign(hp, hp[env].enclosing, name, value)
         ELSE [sig |-> "LoxRuntimeError", token |-> name,
               message |-> "Undefined variable"]

RECURSIVE Environment_set_global(_, _, _, _)
\* environment.py:15-22; depth is the number of nested calls Python still
\* allows: a recursion that does not end by itself ends with RecursionError
Environment_set_global(hp, self, env, depth) ==
    IF hp[self].enclosing = env THEN [sig |-> "normal", heap |-> hp]
    ELSE IF hp[self].enclosing = NoEnv
         THEN [sig |-> "normal", heap |-> [hp EXCEPT ![self].enclosing = env]]
    ELSE IF depth = 0 THEN [sig |-> "RecursionError", heap |-> hp]
    ELSE Environment_set_global(hp, hp[self].enclosing, env, depth - 1)

RECURSIVE RecursionError(_, _, _, _)
\* environment.py:27-44: whether the walk of get and of assign from env
\* goes on for more than depth nested calls, neither finding the name nor
\* reaching an environment without enclosing one
RecursionError(hp, env, name, depth) ==
    IF Key(name) \in DOMAIN hp[env].values THEN FALSE
    ELSE IF hp[env].enclosing = NoEnv THEN FALSE
    ELSE IF depth = 0 THEN TRUE
    ELSE RecursionError(hp, hp[env].enclosing, name, depth - 1)

(* ------------------------------ resolver ------------------------------ *)

\* resolver.py:45-50, with the handle on Lox.report (reports) and on
\* Interpreter.locals (locals); sig is "normal" or the internal failure
\* that ended the pass
Resolver ==
    [scopes |-> <<>>, current_function |-> "NONE", locals |-> EmptyDict,
     reports |-> <<>>, sig |-> "normal"]

\* main.py:64-66 as seen from one pass: the line is printed and the flag set
report(rs, line, where, message) ==
    [rs EXCEPT !.reports = Append(@, [line |-> line, where |-> where, message |-> message])]

\* main.py:54-58
error(rs, token, message) ==
    IF IsNone(token)
    THEN [rs EXCEPT !.sig = "AttributeError"]
    ELSE IF token.type = "EOF"
         THEN report(rs, token.line, "at end", message)
         ELSE report(rs, token.line, "at '" \o token.lexeme \o "'", message)

\* resolver.py:178-179
begin_scope(rs) == [rs EXCEPT !.scopes = Append(@, EmptyDict)]

\* resolver.py:181-182
end_scope(rs) == [rs EXCEPT !.scopes = SubSeq(@, 1, Len(@) - 1)]

\* declare looking for the name in every scope of the stack instead of
\* the innermost one
declare_every_scope(rs, name) ==
    IF rs.scopes = <<>> THEN rs
    ELSE LET r1 == IF \E i \in DOMAIN rs.scopes : Key(name) \in DOMAIN rs.scopes[i]
                   THEN error(rs, name, "Already a variable with this name in this scope.")
                   ELSE rs
         IN IF r1.sig # "normal" THEN r1
            ELSE [r1 EXCEPT !.scopes[Len(rs.scopes)] = (Key(name) :> FALSE) @@ @]

\* resolver.py:184-192
declare(rs, name) ==
    IF rs.scopes = <<>> THEN rs
    ELSE LET scope == rs.scopes[Len(rs.scopes)]
             r1 == IF Key(name) \in DOMAIN scope
                   THEN error(rs, name, "Already a variable with this name in this scope.")
                   ELSE rs
         IN IF r1.sig # "normal" THEN r1
            ELSE [r1 EXCEPT !.scopes[Len(rs.scopes)] = (Key(name) :> FALSE) @@ @]

\* resolver.py:194-198
define(rs, name) ==
    IF rs.scopes = <<>> THEN rs
    ELSE [rs EXCEPT !.scopes[Len(rs.scopes)] = (Key(name) :> TRUE) @@ @]

RECURSIVE resolve_local_from(_, _, _, _)
\* resolver.py:201-204: the loop from the innermost scope (index i) outwards
resolve_local_from(rs, expr, name, i) ==
    IF i = 0 THEN rs
    ELSE IF Key(name) \in DOMAIN rs.scopes[i]
         THEN [rs EXCEPT !.locals = (expr.id :> (Len(rs.scopes) - i)) @@ @]
         ELSE resolve_local_from(rs, expr, name, i - 1)

\* resolver.py:200-204
resolve_local(rs, expr, name) == resolve_local_from(rs, expr, name, Len(rs.scopes))

RECURSIVE Resolver_visit(_, _)
RECURSIVE resolve(_, _)
RECURSIVE resolve_list(_, _)
RECURSIVE resolve_function(_, _, _)
RECURSIVE declare_params(_, _)
RECURSIVE resolve_arguments(_, _)

\* resolver.py:146-156: the single-argument dispatch of resolve. None has
\* no registered type, and the most specific registration for a Function
\* node is the two-argument one of lines 163-164, called here with one
resolve(obj, rs) ==
    IF rs.sig # "normal" THEN rs
    ELSE IF IsNone(obj) THEN [rs EXCEPT !.sig = "NotImplementedError"]
    ELSE IF obj.type = "Function" THEN [rs EXCEPT !.sig = "TypeError"]
    ELSE Resolver_visit(obj, rs)

\* resolver.py:158-161
resolve_list(statements, rs) ==
    IF rs.sig # "normal" \/ statements = <<>> THEN rs
    ELSE resolve_list(Tail(statements), Resolver_visit(Head(statements), rs))

\* resolver.py:126-127
resolve_arguments(arguments, rs) ==
    IF rs.sig # "normal" \/ arguments = <<>> THEN rs
    ELSE resolve_arguments(Tail(arguments), resolve(Head(arguments), rs))

\* resolver.py:169-171
declare_params(params, rs) ==
    IF rs.sig # "normal" \/ params = <<>> THEN rs
    ELSE declare_params(Tail(params), define(declare(rs, Head(params)), Head(params)))

\* resolver.py:163-176
resolve_function(func, func_type, rs) ==
    LET enclosing_function == rs.current_function
        r1 == begin_scope([rs EXCEPT !.current_function = func_type])
        r2 == declare_params(func.params, r1)
        r3 == resolve_list(func.body, r2)
    IN IF r3.sig # "normal" THEN r3
       ELSE [end_scope(r3) EXCEPT !.current_function = enclosing_function]

\* resolver.py:52-144
Resolver_visit(node, rs) ==
    IF rs.sig # "normal" THEN rs
    ELSE CASE node.type = "None" -> [rs EXCEPT !.sig = "AttributeError"]
      [] node.type = "Block" ->
            LET r1 == resolve_list(node.statements, begin_scope(rs))
            IN IF r1.sig # "normal" THEN r1 ELSE end_scope(r1)
      [] node.type = "Var" ->
            LET r1 == declare(rs, node.name)
                r2 == IF r1.sig = "normal" /\ ~IsNone(node.initializer)
                      THEN resolve(node.initializer, r1) ELSE r1
            IN IF r2.sig # "normal" THEN r2 ELSE define(r2, node.name)
      [] node.type = "Variable" ->
            LET top == IF rs.scopes = <<>> THEN EmptyDict ELSE rs.scopes[Len(rs.scopes)]
                r1 == IF Key(node.name) \in DOMAIN top /\ top[Key(node.name)] = FALSE
                      THEN error(rs, node.name,
                                 "Can't read local variable in its own initializer.")
                      ELSE rs
            IN resolve_local(r1, node, node.name)
      [] node.type = "Assign" ->
            LET r1 == resolve(node.value, rs)
            IN IF r1.sig # "normal" THEN r1 ELSE resolve_local(r1, node, node.name)
      [] node.type = "Function" ->
            LET r1 == declare(rs, node.name)
            IN IF r1.sig # "normal" THEN r1
               ELSE resolve_function(node, "FUNCTION", define(r1, node.name))
      [] node.type = "Expression" -> resolve(node.expression, rs)
      [] node.type = "If" ->
            LET r1 == resolve(node.then_branch, resolve(node.condition, rs))
            IN IF r1.sig = "normal" /\ ~IsNone(node.else_branch)
               THEN resolve(node.else_branch, r1) ELSE r1
      [] node.type = "Print" -> resolve(node.expression, rs)
      [] node.type = "Return" ->
            LET r1 == IF rs.current_function = "NONE"
                      THEN error(rs, node.keyword, "Can't return from top-level code.")
                      ELSE rs
            IN IF ~IsNone(node.value) THEN resolve(node.value, r1) ELSE r1
      [] node.type = "While" -> resolve(node.body, resolve(node.condition, rs))
      [] node.type = "Binary" -> resolve(node.right, resolve(node.left, rs))
      [] node.type = "Call" -> resolve_arguments(node.arguments, resolve(node.callee, rs))
      [] node.type = "Grouping" -> resolve(node.expression, rs)
      [] node.type = "Literal" -> rs
      [] node.type = "Logical" -> resolve(node.right, resolve(node.left, rs))
      [] node.type = "Unary" -> resolve(node.right, rs)

(* ----------------------------- evaluator ------------------------------ *)

\* The evaluator's operators take and return the record st:
\*   heap, environment, locals   the environments, Interpreter.environment
\*                               and Interpreter.locals
\*   this_run, run               the number of the current run, and of the
\*                               run that parsed the code being executed
\*   now                         the reading of the clock
\*   out                         the lines written to standard output
\*   sig, val                    "normal" and the value returned, or the
\*                               exception in flight ("ReturnError" with
\*                               its value in val, "LoxRuntimeError" with
\*                               token and message, or an internal failure)
\*   depth                       the number of LoxFunction.call frames
\*   nobj                        the number of function objects made
\*   accesses, blocks, calls, late, raised
\*                               what happened, for the properties

raise(st, exc) == [st EXCEPT !.sig = exc]

\* exceptions.py:14-19
LoxRuntimeError(st, token, message) ==
    [st EXCEPT !.sig = "LoxRuntimeError", !.token = token, !.message = message,
               !.raised = Append(@, token.line)]

\* exceptions.py:22-27
ReturnError(st, value) ==
    [st EXCEPT !.sig = "ReturnError", !.val = value,
               !.returned = [value |-> value, depth |-> st.depth]]

return(st, value) == [st EXCEPT !.val = value]

\* interpreter.py:265-270
is_truthy(value) ==
    IF value.tag = "nil" THEN FALSE
    ELSE IF value.tag = "bool" THEN value.b
    ELSE TRUE

\* isinstance(value, float): a bool is not a float
is_float(value) == value.tag = "num"

\* Python's == on the values of the evaluator (interpreter.py:141): a bool
\* is an int and compares with a float by its numeric value, None equals
\* only None, and functions compare by identity
py_eq(left, right) ==
    LET number(v) == IF v.tag = "num" THEN v.n ELSE IF v.b THEN 1 ELSE 0
    IN CASE left.tag \in {"num", "bool"} /\ right.tag \in {"num", "bool"} ->
                number(left) = number(right)
         [] left.tag = "str" /\ right.tag = "str" -> left.s = right.s
         [] left.tag = "nil" /\ right.tag = "nil" -> TRUE
         [] left.tag = "fn" /\ right.tag = "fn" -> left.obj = right.obj
         [] left.tag = "native" /\ right.tag = "native" -> TRUE
         [] OTHER -> FALSE

\* interpreter.py:70-79: str() of a float that is a whole number ends in
\* ".0", which is cut; str() of a bool is "True" or "False"
stringify(value) ==
    CASE value.tag = "nil" -> "nil"
      [] value.tag = "num" -> ToString(value.n)
      [] value.tag = "bool" -> IF value.b THEN "True" ELSE "False"
      [] value.tag = "str" -> value.s
      [] value.tag = "native" -> "<native fn>"
      [] value.tag = "fn" ->
            IF ~IsNone(value.declaration.name)
            THEN "<fn " \o value.declaration.name.lexeme \o ">"
            ELSE "<fn>"

\* interpreter.py:272-275
check_number_operand(st, operator, operand) ==
    IF is_float(operand) THEN st
    ELSE LoxRuntimeError(st, operator, "Operand must be a number.")

\* interpreter.py:277-280
check_number_operands(st, operator, l_operand, r_operand) ==
    IF is_float(l_operand) /\ is_float(r_operand) THEN st
    ELSE LoxRuntimeError(st, operator, "Operands must be a number.")

\* expr in self.locals: the keys of Interpreter.locals are expression
\* objects of the parse the current interpreter was resolved with
HasDistance(st, expr) == st.run = st.this_run /\ expr.id \in DOMAIN st.locals

\* interpreter.py:247-252: Environment has no method get_at, so the call
\* raises AttributeError, which the except clause for KeyError lets through
lookup_variable(st, name, expr) ==
    IF HasDistance(st, expr)
    THEN [raise(st, "AttributeError") EXCEPT
              !.accesses = Append(@, [op |-> "get", name |-> Key(name),
                                      distance |-> st.locals[expr.id],
                                      environment |-> st.environment,
                                      sig |-> "AttributeError"])]
    ELSE LET r == Environment_get(st.heap, global_env, name)
             s1 == IF r.sig = "normal" THEN return(st, r.val)
                   ELSE LoxRuntimeError(st, r.token, r.message)
         IN [s1 EXCEPT !.accesses = Append(@, [op |-> "get", name |-> Key(name),
                                               distance |-> -1,
                                               environment |-> global_env,
                                               sig |-> r.sig])]

\* interpreter.py:166-176, after the value has been evaluated: Environment
\* has no method assign_at
assign_variable(st, expr, value) ==
    IF HasDistance(st, expr)
    THEN [raise(st, "AttributeError") EXCEPT
              !.accesses = Append(@, [op |-> "assign", name |-> Key(expr.name),
                                      distance |-> st.locals[expr.id],
                                      environment |-> st.environment,
                                      sig |-> "AttributeError"])]
    ELSE LET r == Environment_assign(st.heap, global_env, expr.name, value)
             s1 == IF r.sig = "normal" THEN return([st EXCEPT !.heap = r.heap], value)
                   ELSE LoxRuntimeError(st, r.token, r.message)
         IN [s1 EXCEPT !.accesses = Append(@, [op |-> "assign", name |-> Key(expr.name),
                                               distance |-> -1,
                                               environment |-> global_env,
                                               sig |-> r.sig])]

RECURSIVE Interpreter_visit(_, _)
RECURSIVE evaluate(_, _)
RECURSIVE execute(_, _)
RECURSIVE execute_all(_, _)
RECURSIVE execute_block(_, _, _)
RECURSIVE evaluate_arguments(_, _, _)
RECURSIVE while_loop(_, _, _)
RECURSIVE LoxFunction_call(_, _, _)
RECURSIVE LoxCallable_call(_, _, _)

\* interpreter.py:282-283, parser.py:59-60 (None has no method accept)
evaluate(expr, st) ==
    IF st.sig # "normal" THEN st
    ELSE IF IsNone(expr) THEN raise(st, "AttributeError")
    ELSE Interpreter_visit(expr, st)

\* interpreter.py:81-82, parser.py:133-134; late counts the statements
\* begun after a runtime error was raised in the run
execute(stmt, st) ==
    IF st.sig # "normal" THEN st
    ELSE IF IsNone(stmt) THEN raise(st, "AttributeError")
    ELSE Interpreter_visit(stmt, [st EXCEPT !.late = IF st.raised # <<>> THEN @ + 1 ELSE @])

\* the loop `for statement in statements: self.execute(statement)` of
\* interpreter.py:260-261, which an exception leaves
execute_all(statements, st) ==
    IF st.sig # "normal" \/ statements = <<>> THEN st
    ELSE execute_all(Tail(statements), execute(Head(statements), st))

\* execute_block without its finally clause: the environment is restored
\* only when the statements complete
execute_block_no_finally(statements, environment, st) ==
    LET previous == st.environment
        s1 == execute_all(statements, [st EXCEPT !.environment = environment])
        s2 == IF s1.sig = "normal" THEN [s1 EXCEPT !.environment = previous] ELSE s1
    IN [s2 EXCEPT !.blocks = Append(@, [before |-> previous, inside |-> environment,
                                        after |-> s2.environment, how |-> s1.sig])]

\* interpreter.py:254-263: the finally clause runs on every exit
execute_block(statements, environment, st) ==
    LET previous == st.environment
        s1 == execute_all(statements, [st EXCEPT !.environment = environment])
        s2 == [s1 EXCEPT !.environment = previous]
    IN [s2 EXCEPT !.blocks = Append(@, [before |-> previous, inside |-> environment,
                                        after |-> s2.environment, how |-> s1.sig])]

\* interpreter.py:185: the list comprehension over expr.arguments
evaluate_arguments(arguments, st, acc) ==
    IF st.sig # "normal" THEN st
    ELSE IF arguments = <<>> THEN return(st, acc)
    ELSE LET s1 == evaluate(Head(arguments), st)
         IN evaluate_arguments(Tail(arguments), s1,
                               IF s1.sig = "normal" THEN Append(acc, s1.val) ELSE acc)

\* interpreter.py:226-229; n is the number of iterations left to the
\* model, and "MaxIter" tells that the model gave up on the loop
while_loop(stmt, st, n) ==
    LET s1 == evaluate(stmt.condition, st)
    IN IF s1.sig # "normal" THEN s1
       ELSE IF ~is_truthy(s1.val) THEN return(s1, Nil)
       ELSE IF n = 0 THEN raise(s1, "MaxIter")
       ELSE while_loop(stmt, execute(stmt.body, s1), n - 1)

RECURSIVE define_params(_, _, _, _)
\* parser.py:44-45
define_params(hp, env, params, arguments) ==
    IF params = <<>> \/ arguments = <<>> THEN hp
    ELSE define_params(Environment_define(hp, env, Head(params), Head(arguments)),
                       env, Tail(params), Tail(arguments))

\* LoxFunction.call without its except clause: the return signal goes on
\* to the caller
LoxFunction_call_no_except(func, arguments, st) ==
    LET environment == Len(st.heap) + 1
        hp == define_params(Append(st.heap, Environment(func.closure)), environment,
                            func.declaration.params, arguments)
        s1 == execute_block(func.declaration.body, environment,
                            [st EXCEPT !.heap = hp, !.run = func.run, !.depth = @ + 1])
        s2 == [s1 EXCEPT !.run = st.run, !.depth = st.depth]
        s3 == IF s1.sig = "normal" THEN return(s2, Nil) ELSE s2
    IN [s3 EXCEPT !.calls = Append(@, [how |-> s1.sig, result |-> s3.val,
                                       returned |-> s1.returned,
                                       depth |-> st.depth + 1,
                                       caught |-> s3.sig = "normal"])]

\* parser.py:41-50: only ReturnError is caught, anything else goes on to
\* the caller; a body that completes makes the method return None
LoxFunction_call(func, arguments, st) ==
    LET environment == Len(st.heap) + 1
        hp == define_params(Append(st.heap, Environment(func.closure)), environment,
                            func.declaration.params, arguments)
        s1 == execute_block(func.declaration.body, environment,
                            [st EXCEPT !.heap = hp, !.run = func.run, !.depth = @ + 1])
        s2 == [s1 EXCEPT !.run = st.run, !.depth = st.depth]
        s3 == IF s1.sig = "ReturnError" THEN return([s2 EXCEPT !.sig = "normal"], s1.val)
              ELSE IF s1.sig = "normal" THEN return(s2, Nil)
              ELSE s2
    IN [s3 EXCEPT !.calls = Append(@, [how |-> s1.sig, result |-> s3.val,
                                       returned |-> s1.returned,
                                       depth |-> st.depth + 1,
                                       caught |-> s3.sig = "normal"])]

\* interpreter.py:41-42 (Clock.call), parser.py:41 (LoxFunction.call)
LoxCallable_call(callee, arguments, st) ==
    IF callee.tag = "native" THEN return(st, Num(st.now))
    ELSE LoxFunction_call(callee, arguments, st)

\* interpreter.py:84-245
Interpreter_visit(node, st) ==
    CASE node.type = "Literal" -> return(st, node.value)
      [] node.type = "Grouping" -> evaluate(node.expression, st)
      [] node.type = "Logical" ->
            LET s1 == evaluate(node.left, st)
            IN IF s1.sig # "normal" THEN s1
               ELSE IF node.operator.type = "OR"
                    THEN (IF is_truthy(s1.val) THEN s1 ELSE evaluate(node.right, s1))
                    ELSE (IF ~is_truthy(s1.val) THEN s1 ELSE evaluate(node.right, s1))
      [] node.type = "Unary" ->
            LET s1 == evaluate(node.right, st)
                right == s1.val
            IN IF s1.sig # "normal" THEN s1
               ELSE (CASE node.operator.type = "MINUS" ->
                           LET s2 == check_number_operand(s1, node.operator, right)
                           IN IF s2.sig # "normal" THEN s2 ELSE return(s2, Num(-right.n))
                      [] node.operator.type = "BANG" -> return(s1, Bool(~is_truthy(right)))
                      [] OTHER -> raise(s1, "InterpreterError"))
      [] node.type = "Binary" ->
            LET s1 == evaluate(node.left, st)
                s2 == evaluate(node.right, s1)
                left == s1.val
                right == s2.val
                op == node.operator.type
                s3 == check_number_operands(s2, node.operator, left, right)
            IN IF s2.sig # "normal" THEN s2
               ELSE (CASE op = "EQUAL_EQUAL" -> return(s2, Bool(py_eq(left, right)))
                      [] op = "BANG_EQUAL" -> return(s2, Bool(~py_eq(left, right)))
                      [] op = "PLUS" ->
                           IF is_float(left) /\ is_float(right)
                           THEN return(s2, Num(left.n + right.n))
                           ELSE IF left.tag = "str" /\ right.tag = "str"
                           THEN return(s2, Str(left.s \o right.s))
                           ELSE LoxRuntimeError(s2, node.operator,
                                    "Operands must be two numbers or two strings.")
                      [] op \in {"GREATER", "GREATER_EQUAL", "LESS", "LESS_EQUAL",
                                 "MINUS", "SLASH", "STAR"} ->
                           IF s3.sig # "normal" THEN s3
                           ELSE (CASE op = "GREATER" -> return(s3, Bool(left.n > right.n))
                                  [] op = "GREATER_EQUAL" -> return(s3, Bool(left.n >= right.n))
                                  [] op = "LESS" -> return(s3, Bool(left.n < right.n))
                                  [] op = "LESS_EQUAL" -> return(s3, Bool(left.n <= right.n))
                                  [] op = "MINUS" -> return(s3, Num(left.n - right.n))
                                  [] op = "STAR" -> return(s3, Num(left.n * right.n))
                                  [] op = "SLASH" ->
                                       \* Python's float division raises on a zero
                                       \* divisor; the numbers of the model are
                                       \* the whole ones, and a quotient that is
                                       \* not whole is left unmodelled
                                       IF right.n = 0 THEN raise(s3, "ZeroDivisionError")
                                       ELSE IF left.n % right.n # 0
                                       THEN raise(s3, "NotModelled")
                                       ELSE return(s3, Num(left.n \div right.n)))
                      [] OTHER -> raise(s2, "InterpreterError"))
      [] node.type = "Variable" -> lookup_variable(st, node.name, node)
      [] node.type = "Assign" ->
            LET s1 == evaluate(node.value, st)
            IN IF s1.sig # "normal" THEN s1 ELSE assign_variable(s1, node, s1.val)
      [] node.type = "Call" ->
            LET s1 == evaluate(node.callee, st)
                callee == s1.val
                s2 == evaluate_arguments(node.arguments, s1, <<>>)
                arguments == s2.val
            IN IF s1.sig # "normal" THEN s1
               ELSE IF ~LoxCallable(callee)
               THEN LoxRuntimeError(s1, node.paren, "Can only call functions and classes")
               ELSE IF s2.sig # "normal" THEN s2
               ELSE IF Len(arguments) # arity(callee)
               THEN LoxRuntimeError(s2, node.paren, "Expected n arguments but got m.")
               ELSE LoxCallable_call(callee, arguments, s2)
      [] node.type = "Expression" -> evaluate(node.expression, st)
      [] node.type = "Function" ->
            \* the method ends without a return statement: its value is None
            LET func == LoxFunction(node, st.environment, st.run, st.nobj + 1)
                s1 == [st EXCEPT !.nobj = @ + 1]
            IN IF ~IsNone(node.name)
               THEN return([s1 EXCEPT !.heap = Environment_define(@, st.environment,
                                                                  node.name, func)], Nil)
               ELSE return(s1, Nil)
      [] node.type = "Print" ->
            LET s1 == evaluate(node.expression, st)
            IN IF s1.sig # "normal" THEN s1
               ELSE return([s1 EXCEPT !.out = Append(@, stringify(s1.val))], Nil)
      [] node.type = "Return" ->
            LET s1 == IF ~IsNone(node.value) THEN evaluate(node.value, st)
                      ELSE return(st, Nil)
            IN IF s1.sig # "normal" THEN s1 ELSE ReturnError(s1, s1.val)
      [] node.type = "Var" ->
            LET s1 == IF ~IsNone(node.initializer) THEN evaluate(node.initializer, st)
                      ELSE return(st, Nil)
            IN IF s1.sig # "normal" THEN s1
               ELSE return([s1 EXCEPT !.heap = Environment_define(@, s1.environment,
                                                                  node.name, s1.val)], Nil)
      [] node.type = "While" -> while_loop(node, st, MaxIter)
      [] node.type = "Block" ->
            execute_block(node.statements, Len(st.heap) + 1,
                          [st EXCEPT !.heap = Append(@, Environment(st.environment))])
      [] node.type = "If" ->
            LET s1 == evaluate(node.condition, st)
            IN IF s1.sig # "normal" THEN s1
               ELSE IF is_truthy(s1.val) THEN execute(node.then_branch, s1)
               ELSE IF ~IsNone(node.else_branch) THEN execute(node.else_branch, s1)
               ELSE return(s1, Nil)

(* ------------------------------- parser ------------------------------- *)

\* scanner.py:215-225: a NUMBER token carries its value as literal
NumberToken(n, line) ==
    [type |-> "NUMBER", lexeme |-> ToString(n), line |-> line, literal |-> Num(n)]

\* scanner.py:200-213: a STRING token carries the text between the quotes
StringToken(s, line) ==
    [type |-> "STRING", lexeme |-> "\"" \o s \o "\"", line |-> line, literal |-> Str(s)]

\* parser.py:212-215, with the handle on Lox.report (reports); sig is
\* "normal" or "ParseError", val the node or token the last call returned
\* and nid the number of Variable and Assign nodes made so far (their
\* identity as keys of Interpreter.locals)
Parser(tokens) ==
    [tokens |-> tokens, current |-> 0, reports |-> <<>>, sig |-> "normal",
     val |-> None, nid |-> 0]

\* parser.py:535-536; current counts from 0, the tuple from 1
peek(ps) == ps.tokens[ps.current + 1]

\* parser.py:567-569
is_at_end(ps) == peek(ps).type = "EOF"

\* parser.py:527-528
previous(ps) == ps.tokens[ps.current]

\* parser.py:530-533
check(ps, type) == IF is_at_end(ps) THEN FALSE ELSE peek(ps).type = type

\* parser.py:522-525
advance(ps) == IF ~is_at_end(ps) THEN [ps EXCEPT !.current = @ + 1] ELSE ps

\* parser.py:515-520: whether match(*types) returns True; the caller then
\* goes on from advance(ps)
match(ps, types) == \E t \in types : check(ps, t)

\* parser.py:543-545: the error is reported, nothing is raised
Parser_error(ps, token, message) == error(ps, token, message)

\* `raise self.error(token, message)`
ParseError(ps, token, message) ==
    [Parser_error(ps, token, message) EXCEPT !.sig = "ParseError"]

\* parser.py:538-541; like every method below, it is not entered when an
\* exception is on its way (sig is not "normal")
consume(ps, type, message) ==
    IF ps.sig # "normal" THEN ps
    ELSE IF check(ps, type) THEN [advance(ps) EXCEPT !.val = previous(advance(ps))]
    ELSE ParseError(ps, peek(ps), message)

\* `return <val>` at the end of a method, reached unless an exception is
\* on its way
Parser_return(ps, val) ==
    IF ps.sig # "normal" THEN ps ELSE [ps EXCEPT !.val = val]

RECURSIVE synchronize_loop(_)
\* parser.py:550-565
synchronize_loop(ps) ==
    IF is_at_end(ps) THEN ps
    ELSE IF previous(ps).type = "SEMICOLON" THEN ps
    ELSE IF peek(ps).type \in {"CLASS", "FUN", "VAR", "FOR", "IF", "WHILE", "PRINT", "RETURN"}
         THEN ps
    ELSE synchronize_loop(advance(ps))

\* parser.py:547-565
synchronize(ps) == synchronize_loop(advance(ps))

RECURSIVE Parser_method(_, _)
RECURSIVE turns(_, _, _)
RECURSIVE call_loop(_)
RECURSIVE operators_loop(_, _)
RECURSIVE block_loop(_, _)

\* parser.py:492-513
primary(ps) ==
    IF match(ps, {"FALSE"}) THEN [advance(ps) EXCEPT !.val = Literal(Bool(FALSE))]
    ELSE IF match(ps, {"TRUE"}) THEN [advance(ps) EXCEPT !.val = Literal(Bool(TRUE))]
    ELSE IF match(ps, {"NIL"}) THEN [advance(ps) EXCEPT !.val = Literal(Nil)]
    ELSE IF match(ps, {"NUMBER", "STRING"})
         THEN [advance(ps) EXCEPT !.val = Literal(previous(advance(ps)).literal)]
    ELSE IF match(ps, {"FUN"}) THEN Parser_method("function", advance(ps))
    ELSE IF match(ps, {"IDENTIFIER"})
         THEN [advance(ps) EXCEPT !.nid = @ + 1,
                                  !.val = Variable(ps.nid + 1, previous(advance(ps)))]
    ELSE IF match(ps, {"LEFT_PAREN"})
         THEN LET grouping(p1) ==
                      Parser_return(consume(p1, "RIGHT_PAREN", "Expect ')' after expression."),
                                    Grouping(p1.val))
              IN grouping(Parser_method("expression", advance(ps)))
    ELSE ParseError(ps, peek(ps), "Expect expression.")

\* parser.py:480-485: one turn of the loop of finish_call; ls.list is the
\* list so far and ls.done says that the loop was left (by break or by an
\* exception)
arguments_turn(ls) ==
    LET comma(p1, p2) ==
            IF match(p2, {"COMMA"})
            THEN [ps |-> advance(p2), list |-> Append(ls.list, p1.val), done |-> FALSE]
            ELSE [ps |-> p2, list |-> Append(ls.list, p1.val), done |-> TRUE]
        argument(p1) ==
            IF p1.sig # "normal" THEN [ps |-> p1, list |-> ls.list, done |-> TRUE]
            ELSE comma(p1, IF Len(Append(ls.list, p1.val)) >= MaxArguments
                           THEN Parser_error(p1, peek(p1),
                                             "Can't have more than 255 arguments.")
                           ELSE p1)
    IN IF ls.done THEN ls ELSE argument(Parser_method("expression", ls.ps))

\* parser.py:298-306: one turn of the loop of function
parameters_turn(ls) ==
    LET parameter(p2) ==
            IF p2.sig # "normal" THEN [ps |-> p2, list |-> ls.list, done |-> TRUE]
            ELSE IF match(p2, {"COMMA"})
            THEN [ps |-> advance(p2), list |-> Append(ls.list, p2.val), done |-> FALSE]
            ELSE [ps |-> p2, list |-> Append(ls.list, p2.val), done |-> TRUE]
    IN IF ls.done THEN ls
       ELSE parameter(consume(IF Len(ls.list) >= MaxParameters
                              THEN Parser_error(ls.ps, peek(ls.ps),
                                                "Can't have more than 255 parameters.")
                              ELSE ls.ps,
                              "IDENTIFIER", "Expect parameter name."))

\* one turn of either loop
turn(kind, ls) ==
    IF kind = "arguments" THEN arguments_turn(ls) ELSE parameters_turn(ls)

\* at most n turns of the loop, fewer if it is left before; the turns are
\* taken by halves to keep the evaluation shallow on long lists
turns(kind, n, ls) ==
    IF ls.done \/ n = 0 THEN ls
    ELSE IF n = 1 THEN turn(kind, ls)
    ELSE turns(kind, n - (n \div 2), turns(kind, n \div 2, ls))

\* `while True:` of finish_call and of function: turns until the loop is
\* left; a turn that does not leave the loop takes a COMMA from the
\* tokens, so there are no more turns than tokens
while_true(kind, ls) == turns(kind, Len(ls.ps.tokens), ls)

\* the list a loop has built, as the value of the parser state it ended in
list_of(ls) == [ls.ps EXCEPT !.val = ls.list]

\* parser.py:479-485: the loop of finish_call
arguments_loop(ps) ==
    list_of(while_true("arguments", [ps |-> ps, list |-> <<>>, done |-> FALSE]))

\* parser.py:477-490
finish_call(callee, ps) ==
    LET node(p1, p2) == Parser_return(p2, Call(callee, p2.val, p1.val))
        paren(p1) == node(p1, consume(p1, "RIGHT_PAREN", "Expect ')' after arguments."))
    IN paren(IF ~check(ps, "RIGHT_PAREN") THEN arguments_loop(ps)
             ELSE [ps EXCEPT !.val = <<>>])

\* parser.py:469-473: the loop of call, ps.val the expression so far
call_loop(ps) ==
    IF ps.sig # "normal" THEN ps
    ELSE IF match(ps, {"LEFT_PAREN"}) THEN call_loop(finish_call(ps.val, advance(ps)))
    ELSE ps

\* parser.py:466-475
call(ps) == call_loop(primary(ps))

\* parser.py:459-464
unary(ps) ==
    IF match(ps, {"BANG", "MINUS"})
    THEN LET node(p1) == Parser_return(p1, Unary(previous(advance(ps)), p1.val))
         IN node(Parser_method("unary", advance(ps)))
    ELSE call(ps)

\* parser.py:399-457: the operator tokens matched by the loop of each of
\* the left-associative levels
Operators(level) ==
    CASE level = "logical_or" -> {"OR"}
      [] level = "logical_and" -> {"AND"}
      [] level = "equality" -> {"BANG_EQUAL", "EQUAL_EQUAL"}
      [] level = "comparison" -> {"GREATER", "GREATER_EQUAL", "LESS", "LESS_EQUAL"}
      [] level = "term" -> {"MINUS", "PLUS"}
      [] level = "factor" -> {"SLASH", "STAR"}

\* the right operand of a level: the next level down
operand(level, ps) ==
    CASE level = "logical_or" -> Parser_method("logical_and", ps)
      [] level = "logical_and" -> Parser_method("equality", ps)
      [] level = "equality" -> Parser_method("comparison", ps)
      [] level = "comparison" -> Parser_method("term", ps)
      [] level = "term" -> Parser_method("factor", ps)
      [] level = "factor" -> Parser_method("unary", ps)

\* parser.py:399-457: the loop `while self.match(...)` of a level, ps.val
\* the expression so far
operators_loop(level, ps) ==
    IF ps.sig # "normal" THEN ps
    ELSE IF match(ps, Operators(level))
    THEN LET node(p1) ==
                 Parser_return(p1, IF level \in {"logical_or", "logical_and"}
                                   THEN Logical(ps.val, previous(advance(ps)), p1.val)
                                   ELSE Binary(ps.val, previous(advance(ps)), p1.val))
         IN operators_loop(level, node(operand(level, advance(ps))))
    ELSE ps

\* parser.py:449-457
factor(ps) == operators_loop("factor", unary(ps))

\* parser.py:439-447
term(ps) == operators_loop("term", factor(ps))

\* parser.py:429-437
comparison(ps) == operators_loop("comparison", term(ps))

\* parser.py:419-427
equality(ps) == operators_loop("equality", comparison(ps))

\* parser.py:409-417
logical_and(ps) == operators_loop("logical_and", equality(ps))

\* parser.py:399-407
logical_or(ps) == operators_loop("logical_or", logical_and(ps))

\* parser.py:384-397
assignment(ps) ==
    LET assign(p1, p3) ==
            IF p3.sig # "normal" THEN p3
            ELSE IF p1.val.type = "Variable"
            THEN [p3 EXCEPT !.nid = @ + 1, !.val = Assign(p3.nid + 1, p1.val.name, p3.val)]
            ELSE [Parser_error(p3, previous(advance(p1)), "Invalid assignment target.")
                    EXCEPT !.val = p1.val]
        target(p1) ==
            IF p1.sig # "normal" THEN p1
            ELSE IF match(p1, {"EQUAL"})
            THEN assign(p1, Parser_method("expression", advance(p1)))
            ELSE p1
    IN target(logical_or(ps))

\* parser.py:381-382
expression(ps) == assignment(ps)

\* parser.py:250-255
expression_statement(ps) ==
    LET node(p1) == Parser_return(consume(p1, "SEMICOLON", "Expect ';' after value."),
                                  Expression(p1.val))
    IN node(IF ~check(ps, "SEMICOLON") THEN Parser_method("expression", ps)
            ELSE [ps EXCEPT !.val = None])

\* parser.py:257-260
print_statement(ps) ==
    LET node(p1) == Parser_return(consume(p1, "SEMICOLON", "Expect ';' after value."),
                                  PrintStmt(p1.val))
    IN node(Parser_method("expression", ps))

\* parser.py:262-269
return_statement(ps) ==
    LET node(p1) ==
            Parser_return(consume(p1, "SEMICOLON", "Expect ';' after return value."),
                          Return(previous(ps), p1.val))
    IN node(IF ~check(ps, "SEMICOLON") THEN Parser_method("expression", ps)
            ELSE [ps EXCEPT !.val = None])

\* parser.py:271-277
while_statement(ps) ==
    LET node(p2, p4) == Parser_return(p4, While(p2.val, p4.val))
        body(p2) ==
            node(p2, Parser_method("statement",
                                   consume(p2, "RIGHT_PAREN", "Expect ')' after condition.")))
    IN body(Parser_method("expression",
                          consume(ps, "LEFT_PAREN", "Expect '(' after 'while'.")))

\* parser.py:282-283: the loop of block, statements the list so far
block_loop(ps, statements) ==
    IF ps.sig # "normal" THEN ps
    ELSE IF ~check(ps, "RIGHT_BRACE") /\ ~is_at_end(ps)
    THEN LET next_turn(p1) == block_loop(p1, Append(statements, p1.val))
         IN next_turn(Parser_method("declaration", ps))
    ELSE [ps EXCEPT !.val = statements]

\* parser.py:279-287
block(ps) ==
    LET brace(p1) == Parser_return(consume(p1, "RIGHT_BRACE", "Expect '}' after block."),
                                   p1.val)
    IN brace(block_loop(ps, <<>>))

\* parser.py:297-306: the loop of function
parameters_loop(ps) ==
    list_of(while_true("parameters", [ps |-> ps, list |-> <<>>, done |-> FALSE]))

\* parser.py:289-311
function(kind, ps) ==
    LET node(p1, p3, p6) == Parser_return(p6, Function(p1.val, p3.val, p6.val))
        body(p1, p3) ==
            node(p1, p3,
                 Parser_method("block",
                     consume(consume(p3, "RIGHT_PAREN", "Expect ')' after parameters."),
                             "LEFT_BRACE", "Expect '{' before " \o kind \o " body.")))
        parameters(p2) ==
            IF p2.sig # "normal" THEN p2
            ELSE IF ~check(p2, "RIGHT_PAREN") THEN parameters_loop(p2)
            ELSE [p2 EXCEPT !.val = <<>>]
        named(p1) ==
            body(p1, parameters(consume(p1, "LEFT_PAREN",
                                        "Expect '(' after " \o kind \o " name.")))
    IN named(IF check(ps, "IDENTIFIER")
             THEN consume(ps, "IDENTIFIER", "Expect " \o kind \o " name")
             ELSE [ps EXCEPT !.val = None])

\* parser.py:313-322
var_declaration(ps) ==
    LET node(p1, p2) ==
            Parser_return(consume(p2, "SEMICOLON", "Expect ';' after variable declaration"),
                          Var(p1.val, p2.val))
        named(p1) ==
            node(p1, IF p1.sig # "normal" THEN p1
                     ELSE IF match(p1, {"EQUAL"})
                     THEN Parser_method("expression", advance(p1))
                     ELSE [p1 EXCEPT !.val = None])
    IN named(consume(ps, "IDENTIFIER", "Expect variable name."))

\* parser.py:324-368
for_statement(ps) ==
    LET clause(p, type) ==
            IF p.sig # "normal" THEN p
            ELSE IF ~check(p, type) THEN Parser_method("expression", p)
            ELSE [p EXCEPT !.val = None]
        loop(p3, p5, p7) ==
            While(IF IsNone(p3.val) THEN Literal(Bool(TRUE)) ELSE p3.val,
                  IF ~IsNone(p5.val) THEN Block(<<p7.val, Expression(p5.val)>>)
                  ELSE p7.val)
        node(p2, p3, p5, p7) ==
            Parser_return(p7, IF ~IsNone(p2.val) THEN Block(<<p2.val, loop(p3, p5, p7)>>)
                              ELSE loop(p3, p5, p7))
        body(p2, p3, p5) ==
            node(p2, p3, p5,
                 Parser_method("statement",
                               consume(p5, "RIGHT_PAREN", "Expect ')' after for clauses.")))
        increment(p2, p3) ==
            body(p2, p3, clause(consume(p3, "SEMICOLON", "Expect ';' after loop condition."),
                                "RIGHT_PAREN"))
        condition(p2) == increment(p2, clause(p2, "SEMICOLON"))
        initializer(p1) ==
            IF p1.sig # "normal" THEN p1
            ELSE IF match(p1, {"SEMICOLON"}) THEN [advance(p1) EXCEPT !.val = None]
            ELSE IF match(p1, {"VAR"}) THEN Parser_method("var_declaration", advance(p1))
            ELSE Parser_method("expression_statement", p1)
    IN condition(initializer(consume(ps, "LEFT_PAREN", "Expect '(' after for.")))

\* parser.py:370-379
if_statement(ps) ==
    LET node(p2, p4, p5) == Parser_return(p5, If(p2.val, p4.val, p5.val))
        else_branch(p2, p4) ==
            node(p2, p4, IF p4.sig # "normal" THEN p4
                         ELSE IF match(p4, {"ELSE"})
                         THEN Parser_method("statement", advance(p4))
                         ELSE [p4 EXCEPT !.val = None])
        then_branch(p2) ==
            else_branch(p2, Parser_method("statement",
                                consume(p2, "RIGHT_PAREN", "Expect ')' after if condition")))
    IN then_branch(Parser_method("expression",
                                 consume(ps, "LEFT_PAREN", "Expect '(' after 'if'.")))

\* parser.py:235-248
statement(ps) ==
    IF match(ps, {"FOR"}) THEN for_statement(advance(ps))
    ELSE IF match(ps, {"IF"}) THEN if_statement(advance(ps))
    ELSE IF match(ps, {"PRINT"}) THEN print_statement(advance(ps))
    ELSE IF match(ps, {"RETURN"}) THEN return_statement(advance(ps))
    ELSE IF match(ps, {"WHILE"}) THEN while_statement(advance(ps))
    ELSE IF match(ps, {"LEFT_BRACE"})
         THEN LET node(p1) == Parser_return(p1, Block(p1.val))
              IN node(Parser_method("block", advance(ps)))
    ELSE Parser_method("expression_statement", ps)

\* parser.py:224-233
declaration(ps) ==
    LET recover(p1) ==
            IF p1.sig = "ParseError"
            THEN [synchronize([p1 EXCEPT !.sig = "normal"]) EXCEPT !.val = None]
            ELSE p1
    IN recover(IF match(ps, {"FUN"}) THEN Parser_method("function", advance(ps))
               ELSE IF match(ps, {"VAR"}) THEN Parser_method("var_declaration", advance(ps))
               ELSE Parser_method("statement", ps))

\* `self.<method>()`: the call of a method of the parser from another one
Parser_method(method, ps) ==
    IF ps.sig # "normal" THEN ps
    ELSE CASE method = "declaration" -> declaration(ps)
           [] method = "statement" -> statement(ps)
           [] method = "block" -> block(ps)
           [] method = "function" -> function("function", ps)
           [] method = "var_declaration" -> var_declaration(ps)
           [] method = "expression_statement" -> expression_statement(ps)
           [] method = "expression" -> expression(ps)
           [] method = "logical_and" -> logical_and(ps)
           [] method = "equality" -> equality(ps)
           [] method = "comparison" -> comparison(ps)
           [] method = "term" -> term(ps)
           [] method = "factor" -> factor(ps)
           [] method = "unary" -> unary(ps)

RECURSIVE parse_loop(_, _)
\* parser.py:219-220: the loop of parse, statements the list so far
parse_loop(ps, statements) ==
    IF ~is_at_end(ps)
    THEN LET next_turn(p1) == parse_loop(p1, Append(statements, p1.val))
         IN next_turn(Parser_method("declaration", ps))
    ELSE [ps EXCEPT !.val = statements]

\* parser.py:217-222
parse(ps) == parse_loop(ps, <<>>)

(* ------------------------------ sources ------------------------------- *)

\* What Scanner.scan_tokens and Parser.parse make of a source text:
\* statements is the list Parser.parse returns (None where
\* Parser.declaration recovered from a ParseError, parser.py:231-233) and
\* syntax_errors the number of calls of Lox.report during the two.
Parsed(statements, syntax_errors) ==
    [statements |-> statements, syntax_errors |-> syntax_errors]

V(id, lexeme, line) == Variable(id, Ident(lexeme, line))

N(n) == Literal(Num(n))

\* scanner.py:119-159, 227-235: the text of the operator and keyword tokens
Lexeme(type) ==
    CASE type = "PLUS" -> "+"
      [] type = "MINUS" -> "-"
      [] type = "STAR" -> "*"
      [] type = "SLASH" -> "/"
      [] type = "BANG" -> "!"
      [] type = "BANG_EQUAL" -> "!="
      [] type = "EQUAL_EQUAL" -> "=="
      [] type = "GREATER" -> ">"
      [] type = "GREATER_EQUAL" -> ">="
      [] type = "LESS" -> "<"
      [] type = "LESS_EQUAL" -> "<="
      [] type = "OR" -> "or"
      [] type = "AND" -> "and"
      [] type = "RETURN" -> "return"
      [] type = "LEFT_PAREN" -> "("
      [] type = "RIGHT_PAREN" -> ")"
      [] type = "LEFT_BRACE" -> "{"
      [] type = "RIGHT_BRACE" -> "}"
      [] type = "COMMA" -> ","
      [] type = "SEMICOLON" -> ";"
      [] type = "EQUAL" -> "="
      [] type = "ELSE" -> "else"
      [] type = "FALSE" -> "false"
      [] type = "FUN" -> "fun"
      [] type = "FOR" -> "for"
      [] type = "IF" -> "if"
      [] type = "NIL" -> "nil"
      [] type = "PRINT" -> "print"
      [] type = "TRUE" -> "true"
      [] type = "VAR" -> "var"
      [] type = "WHILE" -> "while"
      [] type = "DOT" -> "."
      [] type = "CLASS" -> "class"
      [] type = "SUPER" -> "super"
      [] type = "THIS" -> "this"
      [] type = "EOF" -> ""

Op(type, line) == Token(type, Lexeme(type), line)

Paren(line) == Token("RIGHT_PAREN", ")", line)

FunDecl(lexeme, line, params, body) == Function(Ident(lexeme, line), params, body)

\* main.py:29-30: what Parser(lox, tokens).parse() makes of the tokens of
\* a source text the scanner had no complaint about
ParseTokens(tokens) ==
    LET ps == parse(Parser(tokens))
    IN Parsed(ps.val, Len(ps.reports))

\* print 1 + 2 * 3;
SrcArith ==
    Parsed(<<PrintStmt(Binary(N(1), Op("PLUS", 1), Binary(N(2), Op("STAR", 1), N(3))))>>, 0)

\* var a = 1; { var a = 2; print a; } print a;
SrcShadow ==
    Parsed(<<Var(Ident("a", 1), N(1)),
             Block(<<Var(Ident("a", 1), N(2)), PrintStmt(V(1, "a", 1))>>),
             PrintStmt(V(2, "a", 1))>>, 0)

\* fun make() { var i = 0; fun inc() { i = i + 1; return i; } return inc; }
\* var c = make(); print c(); print c(); print c();
SrcCounter ==
    Parsed(<<FunDecl("make", 1, <<>>,
                <<Var(Ident("i", 1), N(0)),
                  FunDecl("inc", 1, <<>>,
                     <<Expression(Assign(1, Ident("i", 1),
                                         Binary(V(2, "i", 1), Op("PLUS", 1), N(1)))),
                       Return(Op("RETURN", 1), V(3, "i", 1))>>),
                  Return(Op("RETURN", 1), V(4, "inc", 1))>>),
             Var(Ident("c", 2), Call(V(5, "make", 2), Paren(2), <<>>)),
             PrintStmt(Call(V(6, "c", 2), Paren(2), <<>>)),
             PrintStmt(Call(V(7, "c", 2), Paren(2), <<>>)),
             PrintStmt(Call(V(8, "c", 2), Paren(2), <<>>))>>, 0)

\* fun make() { var i = 0; fun inc() { i = i + 1; return i; } return inc; }
\* var c = make(); var d = make(); print c(); print c(); print d();
SrcCounters ==
    Parsed(<<FunDecl("make", 1, <<>>,
                <<Var(Ident("i", 1), N(0)),
                  FunDecl("inc", 1, <<>>,
                     <<Expression(Assign(1, Ident("i", 1),
                                         Binary(V(2, "i", 1), Op("PLUS", 1), N(1)))),
                       Return(Op("RETURN", 1), V(3, "i", 1))>>),
                  Return(Op("RETURN", 1), V(4, "inc", 1))>>),
             Var(Ident("c", 2), Call(V(5, "make", 2), Paren(2), <<>>)),
             Var(Ident("d", 2), Call(V(6, "make", 2), Paren(2), <<>>)),
             PrintStmt(Call(V(7, "c", 2), Paren(2), <<>>)),
             PrintStmt(Call(V(8, "c", 2), Paren(2), <<>>)),
             PrintStmt(Call(V(9, "d", 2), Paren(2), <<>>))>>, 0)

\* var a = "global"; { fun show() { print a; } show(); var a = "local"; show(); }
SrcStatic ==
    Parsed(<<Var(Ident("a", 1), Literal(Str("global"))),
             Block(<<FunDecl("show", 1, <<>>, <<PrintStmt(V(1, "a", 1))>>),
                     Expression(Call(V(2, "show", 1), Paren(1), <<>>)),
                     Var(Ident("a", 1), Literal(Str("local"))),
                     Expression(Call(V(3, "show", 1), Paren(1), <<>>))>>)>>, 0)

\* fun f() { while (true) { { if (true) return 7; } } print 0; }
\* print f(); print 2;
SrcReturn ==
    Parsed(<<FunDecl("f", 1, <<>>,
                <<While(Literal(Bool(TRUE)),
                        Block(<<Block(<<If(Literal(Bool(TRUE)),
                                           Return(Op("RETURN", 1), N(7)), None)>>)>>)),
                  PrintStmt(N(0))>>),
             PrintStmt(Call(V(1, "f", 2), Paren(2), <<>>)),
             PrintStmt(N(2))>>, 0)

\* fun g() { return 1; } fun f() { g(); print 5; return; } print f(); print g();
SrcNested ==
    Parsed(<<FunDecl("g", 1, <<>>, <<Return(Op("RETURN", 1), N(1))>>),
             FunDecl("f", 1, <<>>,
                <<Expression(Call(V(1, "g", 1), Paren(1), <<>>)),
                  PrintStmt(N(5)),
                  Return(Op("RETURN", 1), None)>>),
             PrintStmt(Call(V(2, "f", 1), Paren(1), <<>>)),
             PrintStmt(Call(V(3, "g", 1), Paren(1), <<>>))>>, 0)

\* fun g() { print 1; } print g();
SrcNoReturn ==
    Parsed(<<FunDecl("g", 1, <<>>, <<PrintStmt(N(1))>>),
             PrintStmt(Call(V(1, "g", 1), Paren(1), <<>>))>>, 0)

\* fun g() { { return 1; } }
\* fun f() { { print y; } print 8; }
\* { print 1; } g(); f();
\* print 9;
SrcBlocks ==
    Parsed(<<FunDecl("g", 1, <<>>, <<Block(<<Return(Op("RETURN", 1), N(1))>>)>>),
             FunDecl("f", 2, <<>>, <<Block(<<PrintStmt(V(1, "y", 2))>>), PrintStmt(N(8))>>),
             Block(<<PrintStmt(N(1))>>),
             Expression(Call(V(2, "g", 3), Paren(3), <<>>)),
             Expression(Call(V(3, "f", 3), Paren(3), <<>>)),
             PrintStmt(N(9))>>, 0)

\* var f = fun (x) { return x; }; f(1);
SrcFunExpr ==
    Parsed(<<Var(Ident("f", 1),
                 Function(None, <<Ident("x", 1)>>, <<Return(Op("RETURN", 1), V(1, "x", 1))>>)),
             Expression(Call(V(2, "f", 1), Paren(1), <<N(1)>>))>>, 0)

\* print 1;
\* print x;
\* print 2;
SrcUndefined ==
    Parsed(<<PrintStmt(N(1)), PrintStmt(V(1, "x", 2)), PrintStmt(N(2))>>, 0)

\* { var a = a; } return 1; print 3;
SrcTwoErrors ==
    Parsed(<<Block(<<Var(Ident("a", 1), V(1, "a", 1))>>),
             Return(Op("RETURN", 1), N(1)),
             PrintStmt(N(3))>>, 0)

\* { var x; var x; }
SrcRedeclare ==
    Parsed(<<Block(<<Var(Ident("x", 1), None), Var(Ident("x", 1), None)>>)>>, 0)

\* print 1; @
SrcBadChar == Parsed(<<PrintStmt(N(1))>>, 1)

\* print 1 +; print 2;
SrcBadExpr == Parsed(<<None, PrintStmt(N(2))>>, 1)

\* var a = 1; a = 2; print a; b = 3; print 4;
SrcAssign ==
    Parsed(<<Var(Ident("a", 1), N(1)),
             Expression(Assign(1, Ident("a", 1), N(2))),
             PrintStmt(V(2, "a", 1)),
             Expression(Assign(3, Ident("b", 1), N(3))),
             PrintStmt(N(4))>>, 0)

\* { var a = 1; a = 2; }
SrcLocalAssign ==
    Parsed(<<Block(<<Var(Ident("a", 1), N(1)),
                     Expression(Assign(1, Ident("a", 1), N(2)))>>)>>, 0)

\* var i = 0; while (i < 3) { print i; i = i + 1; }
SrcLoop ==
    Parsed(<<Var(Ident("i", 1), N(0)),
             While(Binary(V(1, "i", 1), Op("LESS", 1), N(3)),
                   Block(<<PrintStmt(V(2, "i", 1)),
                           Expression(Assign(3, Ident("i", 1),
                                             Binary(V(4, "i", 1), Op("PLUS", 1), N(1))))>>))>>, 0)

\* fun id(a) { return a; }
SrcDefId ==
    Parsed(<<FunDecl("id", 1, <<Ident("a", 1)>>, <<Return(Op("RETURN", 1), V(1, "a", 1))>>)>>, 0)

\* print id(3);
SrcCallId == Parsed(<<PrintStmt(Call(V(1, "id", 1), Paren(1), <<N(3)>>))>>, 0)

\* var n = 0; fun inc() { n = n + 1; return n; } print inc(); print inc();
SrcGlobalCounter ==
    Parsed(<<Var(Ident("n", 1), N(0)),
             FunDecl("inc", 1, <<>>,
                <<Expression(Assign(1, Ident("n", 1),
                                    Binary(V(2, "n", 1), Op("PLUS", 1), N(1)))),
                  Return(Op("RETURN", 1), V(3, "n", 1))>>),
             PrintStmt(Call(V(4, "inc", 1), Paren(1), <<>>)),
             PrintStmt(Call(V(5, "inc", 1), Paren(1), <<>>))>>, 0)

\* print clock() > 0 or "hi" + 1;
SrcClock ==
    Parsed(<<PrintStmt(Logical(Binary(Call(V(1, "clock", 1), Paren(1), <<>>),
                                      Op("GREATER", 1), N(0)),
                               Op("OR", 1),
                               Binary(Literal(Str("hi")), Op("PLUS", 1), N(1))))>>, 0)

\* var r = true == 1; var s = false == 0; var t = nil == nil; var u = 1 == "1";
\* var v = nil == false; var w = true != 1; var x = "a" == "a"; var y = 1 == 1;
SrcEquality ==
    Parsed(<<Var(Ident("r", 1), Binary(Literal(Bool(TRUE)), Op("EQUAL_EQUAL", 1), N(1))),
             Var(Ident("s", 1), Binary(Literal(Bool(FALSE)), Op("EQUAL_EQUAL", 1), N(0))),
             Var(Ident("t", 1), Binary(Literal(Nil), Op("EQUAL_EQUAL", 1), Literal(Nil))),
             Var(Ident("u", 1), Binary(N(1), Op("EQUAL_EQUAL", 1), Literal(Str("1")))),
             Var(Ident("v", 2), Binary(Literal(Nil), Op("EQUAL_EQUAL", 2),
                                       Literal(Bool(FALSE)))),
             Var(Ident("w", 2), Binary(Literal(Bool(TRUE)), Op("BANG_EQUAL", 2), N(1))),
             Var(Ident("x", 2), Binary(Literal(Str("a")), Op("EQUAL_EQUAL", 2),
                                       Literal(Str("a")))),
             Var(Ident("y", 2), Binary(N(1), Op("EQUAL_EQUAL", 2), N(1)))>>, 0)

\* print nil; print true; print false; print 3; print "hi";
SrcStringify ==
    Parsed(<<PrintStmt(Literal(Nil)), PrintStmt(Literal(Bool(TRUE))),
             PrintStmt(Literal(Bool(FALSE))), PrintStmt(N(3)),
             PrintStmt(Literal(Str("hi")))>>, 0)

\* ; print 1;
TokSemicolon ==
    <<Op("SEMICOLON", 1), Op("PRINT", 1), NumberToken(1, 1), Op("SEMICOLON", 1),
      Op("EOF", 1)>>

SrcSemicolon == ParseTokens(TokSemicolon)

\* scanner.py:110-117: the tokens of `for (var i = 0; i < 3; i = i + 1) print i;`
\* without the EOF, with each of the three clauses written or left out
ForTokens(clauses) ==
    <<Op("FOR", 1), Op("LEFT_PAREN", 1)>>
    \o (IF clauses.initializer
        THEN <<Op("VAR", 1), Ident("i", 1), Op("EQUAL", 1), NumberToken(0, 1)>>
        ELSE <<>>)
    \o <<Op("SEMICOLON", 1)>>
    \o (IF clauses.condition
        THEN <<Ident("i", 1), Op("LESS", 1), NumberToken(3, 1)>>
        ELSE <<>>)
    \o <<Op("SEMICOLON", 1)>>
    \o (IF clauses.increment
        THEN <<Ident("i", 1), Op("EQUAL", 1), Ident("i", 1), Op("PLUS", 1), NumberToken(1, 1)>>
        ELSE <<>>)
    \o <<Op("RIGHT_PAREN", 1), Op("PRINT", 1), Ident("i", 1), Op("SEMICOLON", 1)>>

\* for (var i = 0; i < 3; i = i + 1) print i;
\* print i;
TokForLoop ==
    ForTokens([initializer |-> TRUE, condition |-> TRUE, increment |-> TRUE])
    \o <<Op("PRINT", 2), Ident("i", 2), Op("SEMICOLON", 2), Op("EOF", 2)>>

SrcForLoop == ParseTokens(TokForLoop)

\* print 1 / 0;
\* print 2;
TokDivZero ==
    <<Op("PRINT", 1), NumberToken(1, 1), Op("SLASH", 1), NumberToken(0, 1), Op("SEMICOLON", 1),
      Op("PRINT", 2), NumberToken(2, 2), Op("SEMICOLON", 2), Op("EOF", 2)>>

SrcDivZero == ParseTokens(TokDivZero)

Sources ==
    {"arith", "shadow", "counter", "counters", "static", "return", "nested", "noreturn",
     "blocks", "funexpr", "undefined", "twoerrors", "redeclare", "badchar",
     "badexpr", "assign", "localassign", "loop", "defid", "callid",
     "globalcounter", "clock", "equality", "stringify", "semicolon", "forloop",
     "divzero"}

Source(name) ==
    CASE name = "arith" -> SrcArith
      [] name = "shadow" -> SrcShadow
      [] name = "counter" -> SrcCounter
      [] name = "counters" -> SrcCounters
      [] name = "static" -> SrcStatic
      [] name = "return" -> SrcReturn
      [] name = "nested" -> SrcNested
      [] name = "noreturn" -> SrcNoReturn
      [] name = "blocks" -> SrcBlocks
      [] name = "funexpr" -> SrcFunExpr
      [] name = "undefined" -> SrcUndefined
      [] name = "twoerrors" -> SrcTwoErrors
      [] name = "redeclare" -> SrcRedeclare
      [] name = "badchar" -> SrcBadChar
      [] name = "badexpr" -> SrcBadExpr
      [] name = "assign" -> SrcAssign
      [] name = "localassign" -> SrcLocalAssign
      [] name = "loop" -> SrcLoop
      [] name = "defid" -> SrcDefId
      [] name = "callid" -> SrcCallId
      [] name = "globalcounter" -> SrcGlobalCounter
      [] name = "clock" -> SrcClock
      [] name = "equality" -> SrcEquality
      [] name = "stringify" -> SrcStringify
      [] name = "semicolon" -> SrcSemicolon
      [] name = "forloop" -> SrcForLoop
      [] name = "divzero" -> SrcDivZero

\* the readings time.time() may give (interpreter.py:42)
ClockTimes == {1, 2}

(* ---------------------------- the program ---------------------------- *)

VARIABLES
    pc,                 \* where the host is: "start", "prompt", "run",
                        \* "parsed", "resolved", "interpret", "ran",
                        \* "exited", "crashed" (traceback printed) or
                        \* "unmodelled" (a bound of the model was met)
    mode,               \* "file" (run_file) or "repl" (run_prompt)
    run,                \* the number of calls of Lox.run so far
    src,                \* the source text of the current run
    statements,         \* the statements Parser.parse returned
    next,               \* the index of the statement interpret is at
    has_error,          \* Lox.has_error
    has_runtime_error,  \* Lox.has_runtime_error
    heap,               \* the Environment objects; heap[global_env] is the
                        \* module's global_env
    environment,        \* Interpreter.environment
    locals,             \* Interpreter.locals
    nobj,               \* the number of LoxFunction objects made
    stdout,             \* the lines printed to standard output
    stderr,             \* the reports printed to standard error
    exit_status,        \* the status of the process, -1 while it runs
    crash,              \* the internal failure that ended the process
    trace               \* what happened in the current run

vars ==
    <<pc, mode, run, src, statements, next, has_error, has_runtime_error, heap,
      environment, locals, nobj, stdout, stderr, exit_status, crash, trace>>

\* the record of a run before anything happened
NewTrace ==
    [syntax_reports |-> 0, resolve_reports |-> 0, resolver_runs |-> 0,
     interpreted |-> FALSE, executed |-> 0, runtime_reports |-> <<>>,
     accesses |-> <<>>, blocks |-> <<>>, calls |-> <<>>, late |-> 0,
     raised |-> <<>>, returned |-> [value |-> Nil, depth |-> -1],
     earlier_error |-> FALSE]

\* main.py:16-18, interpreter.py:48-49
Init ==
    /\ pc = "start"
    /\ mode = "none"
    /\ run = 0
    /\ src = ""
    /\ statements = <<>>
    /\ next = 0
    /\ has_error = FALSE
    /\ has_runtime_error = FALSE
    /\ heap = <<[enclosing |-> NoEnv, values |-> ("clock" :> Clock)]>>
    /\ environment = global_env
    /\ locals = EmptyDict
    /\ nobj = 0
    /\ stdout = <<>>
    /\ stderr = <<>>
    /\ exit_status = -1
    /\ crash = "none"
    /\ trace = NewTrace

\* a call of Lox.run(line) begins
BeginRun(line) ==
    /\ run' = run + 1
    /\ src' = line
    /\ pc' = "run"
    /\ trace' = [NewTrace EXCEPT !.earlier_error =
                     trace.earlier_error \/ trace.syntax_reports + trace.resolve_reports > 0]
    /\ UNCHANGED <<statements, next, has_error, has_runtime_error, heap, environment,
                   locals, nobj, stdout, stderr, exit_status, crash>>

\* main.py:75-76, 20-22: the script is read and Lox.run called
RunFile(script) ==
    /\ pc = "start"
    /\ mode' = "file"
    /\ BeginRun(script)

\* main.py:77-78, 45-46
RunPrompt ==
    /\ pc = "start"
    /\ mode' = "repl"
    /\ pc' = "prompt"
    /\ UNCHANGED <<run, src, statements, next, has_error, has_runtime_error, heap,
                   environment, locals, nobj, stdout, stderr, exit_status, crash, trace>>

\* main.py:48-49: a line is read and Lox.run called
ReadLine(line) ==
    /\ pc = "prompt"
    /\ run < MaxLines
    /\ BeginRun(line)
    /\ UNCHANGED mode

\* main.py:51-52: end of input ends the loop, and the process
EndOfInput ==
    /\ pc = "prompt"
    /\ pc' = "exited"
    /\ exit_status' = 0
    /\ UNCHANGED <<mode, run, src, statements, next, has_error, has_runtime_error, heap,
                   environment, locals, nobj, stdout, stderr, crash, trace>>

\* main.py:27-30, with Lox.report (main.py:64-66) for each syntax error
ScanParse ==
    /\ pc = "run"
    /\ LET parsed == Source(src)
       IN /\ statements' = parsed.statements
          /\ has_error' = (has_error \/ parsed.syntax_errors > 0)
          /\ stderr' = stderr \o [i \in 1..parsed.syntax_errors |-> "syntax"]
          /\ trace' = [trace EXCEPT !.syntax_reports = parsed.syntax_errors]
    /\ pc' = "parsed"
    /\ UNCHANGED <<mode, run, src, next, has_runtime_error, heap, environment, locals,
                   nobj, stdout, exit_status, crash>>

\* Lox.run without the test of line 32
SyntaxGate_absent == FALSE

\* main.py:32: the test that ends Lox.run after the parse
SyntaxGate == has_error

\* main.py:32-33
ReturnAfterParse ==
    /\ pc = "parsed"
    /\ SyntaxGate
    /\ pc' = "ran"
    /\ UNCHANGED <<mode, run, src, statements, next, has_error, has_runtime_error, heap,
                   environment, locals, nobj, stdout, stderr, exit_status, crash, trace>>

\* the process ends on an exception nothing catches
Crash(exc) ==
    /\ pc' = "crashed"
    /\ crash' = exc
    /\ exit_status' = 1

\* main.py:35-38: the interpreter and the resolver are made, and the
\* statements resolved
Resolve ==
    /\ pc = "parsed"
    /\ ~SyntaxGate
    /\ LET rs == resolve_list(statements, Resolver)
       IN /\ locals' = rs.locals
          /\ environment' = global_env
          /\ has_error' = (has_error \/ rs.reports # <<>>)
          /\ stderr' = stderr \o [i \in 1..Len(rs.reports) |-> rs.reports[i].message]
          /\ trace' = [trace EXCEPT !.resolver_runs = @ + 1,
                                    !.resolve_reports = Len(rs.reports)]
          /\ IF rs.sig = "normal"
             THEN pc' = "resolved" /\ UNCHANGED <<crash, exit_status>>
             ELSE Crash(rs.sig)
    /\ UNCHANGED <<mode, run, src, statements, next, has_runtime_error, heap, nobj, stdout>>

\* main.py:40: the test that ends Lox.run after the resolution
ResolveGate == has_error

\* main.py:40-41
ReturnAfterResolve ==
    /\ pc = "resolved"
    /\ ResolveGate
    /\ pc' = "ran"
    /\ UNCHANGED <<mode, run, src, statements, next, has_error, has_runtime_error, heap,
                   environment, locals, nobj, stdout, stderr, exit_status, crash, trace>>

\* main.py:43: Interpreter.interpret is called
Interpret ==
    /\ pc = "resolved"
    /\ ~ResolveGate
    /\ pc' = "interpret"
    /\ next' = 1
    /\ trace' = [trace EXCEPT !.interpreted = TRUE]
    /\ UNCHANGED <<mode, run, src, statements, has_error, has_runtime_error, heap,
                   environment, locals, nobj, stdout, stderr, exit_status, crash>>

\* the evaluator's record for the statement the interpret loop is at
EvaluatorState(now) ==
    [heap |-> heap, environment |-> environment, locals |-> locals,
     this_run |-> run, run |-> run, now |-> now, out |-> stdout,
     sig |-> "normal", val |-> Nil, token |-> None, message |-> "",
     depth |-> 0, nobj |-> nobj,
     accesses |-> trace.accesses, blocks |-> trace.blocks, calls |-> trace.calls,
     late |-> trace.late, raised |-> trace.raised, returned |-> trace.returned]

\* interpret with the try statement inside its loop: the loop goes on
\* after a reported error
AfterStatement_resume(sig) == "interpret"

\* interpreter.py:67-68 with main.py:60-62: where the loop of interpret
\* goes once statement next has been executed with outcome sig
AfterStatement(sig) ==
    IF sig = "normal" THEN "interpret" ELSE "ran"

\* interpreter.py:63-68: one turn of the loop of interpret; a
\* LoxRuntimeError ends the loop and is reported by Lox.runtime_error
\* (main.py:60-62), any other exception ends the process
InterpretStatement ==
    /\ pc = "interpret"
    /\ next <= Len(statements)
    /\ \E now \in ClockTimes :
         LET st == execute(statements[next], EvaluatorState(now))
             reported == st.sig = "LoxRuntimeError"
         IN /\ heap' = st.heap
            /\ environment' = st.environment
            /\ nobj' = st.nobj
            /\ stdout' = st.out
            /\ has_runtime_error' = (has_runtime_error \/ reported)
            /\ stderr' = IF reported THEN Append(stderr, st.message) ELSE stderr
            /\ trace' = [trace EXCEPT
                             !.executed = @ + 1,
                             !.runtime_reports =
                                 IF reported THEN Append(@, st.token.line) ELSE @,
                             !.accesses = st.accesses, !.blocks = st.blocks,
                             !.calls = st.calls, !.late = st.late,
                             !.raised = st.raised, !.returned = st.returned]
            /\ IF st.sig \in {"normal", "LoxRuntimeError"}
               THEN /\ pc' = AfterStatement(st.sig)
                    /\ next' = next + 1
                    /\ UNCHANGED <<crash, exit_status>>
               ELSE IF st.sig \in {"MaxIter", "NotModelled"}
               THEN /\ pc' = "unmodelled"
                    /\ UNCHANGED <<next, crash, exit_status>>
               ELSE /\ Crash(st.sig)
                    /\ UNCHANGED next
    /\ UNCHANGED <<mode, run, src, statements, has_error, locals>>

\* interpreter.py:65: the loop of interpret is over
InterpretEnd ==
    /\ pc = "interpret"
    /\ next > Len(statements)
    /\ pc' = "ran"
    /\ UNCHANGED <<mode, run, src, statements, next, has_error, has_runtime_error, heap,
                   environment, locals, nobj, stdout, stderr, exit_status, crash, trace>>

\* main.py:23-24
ExitFile ==
    /\ pc = "ran"
    /\ mode = "file"
    /\ pc' = "exited"
    /\ exit_status' = IF has_error \/ has_runtime_error THEN 1 ELSE 0
    /\ UNCHANGED <<mode, run, src, statements, next, has_error, has_runtime_error, heap,
                   environment, locals, nobj, stdout, stderr, crash, trace>>

\* run_prompt without line 50
ClearError_absent ==
    /\ pc = "ran"
    /\ mode = "repl"
    /\ pc' = "prompt"
    /\ UNCHANGED <<mode, run, src, statements, next, has_error, has_runtime_error, heap,
                   environment, locals, nobj, stdout, stderr, exit_status, crash, trace>>

\* main.py:50
ClearError ==
    /\ pc = "ran"
    /\ mode = "repl"
    /\ has_error' = FALSE
    /\ pc' = "prompt"
    /\ UNCHANGED <<mode, run, src, statements, next, has_runtime_error, heap,
                   environment, locals, nobj, stdout, stderr, exit_status, crash, trace>>

Next ==
    \/ \E script \in Sources : RunFile(script)
    \/ RunPrompt
    \/ \E line \in Sources : ReadLine(line)
    \/ EndOfInput
    \/ ScanParse
    \/ ReturnAfterParse
    \/ Resolve
    \/ ReturnAfterResolve
    \/ Interpret
    \/ InterpretStatement
    \/ InterpretEnd
    \/ ExitFile
    \/ ClearError

Spec == Init /\ [][Next]_vars

(* ----------------------- the parser on its own ------------------------ *)

\* the tokens of `fun f(p1, ..., pn) {}`
ParametersTokens(n) ==
    <<Op("FUN", 1), Ident("f", 1), Op("LEFT_PAREN", 1)>>
    \o [k \in 1..(IF n = 0 THEN 0 ELSE 2 * n - 1) |->
            IF k % 2 = 1 THEN Ident("p" \o ToString((k + 1) \div 2), 1)
            ELSE Op("COMMA", 1)]
    \o <<Op("RIGHT_PAREN", 1), Op("LEFT_BRACE", 1), Op("RIGHT_BRACE", 1), Op("EOF", 1)>>

\* the tokens of `f(1, ..., n);`
ArgumentsTokens(n) ==
    <<Ident("f", 1), Op("LEFT_PAREN", 1)>>
    \o [k \in 1..(IF n = 0 THEN 0 ELSE 2 * n - 1) |->
            IF k % 2 = 1 THEN NumberToken((k + 1) \div 2, 1) ELSE Op("COMMA", 1)]
    \o <<Op("RIGHT_PAREN", 1), Op("SEMICOLON", 1), Op("EOF", 1)>>

\* fun () {}
TokAnonymous ==
    <<Op("FUN", 1), Op("LEFT_PAREN", 1), Op("RIGHT_PAREN", 1), Op("LEFT_BRACE", 1),
      Op("RIGHT_BRACE", 1), Op("EOF", 1)>>

\* { fun (a) { print a; } }
TokAnonymousInBlock ==
    <<Op("LEFT_BRACE", 1), Op("FUN", 1), Op("LEFT_PAREN", 1), Ident("a", 1),
      Op("RIGHT_PAREN", 1), Op("LEFT_BRACE", 1), Op("PRINT", 1), Ident("a", 1),
      Op("SEMICOLON", 1), Op("RIGHT_BRACE", 1), Op("RIGHT_BRACE", 1), Op("EOF", 1)>>

\* fun f() {}
TokNamed ==
    <<Op("FUN", 1), Ident("f", 1), Op("LEFT_PAREN", 1), Op("RIGHT_PAREN", 1),
      Op("LEFT_BRACE", 1), Op("RIGHT_BRACE", 1), Op("EOF", 1)>>

\* var f = fun () {};
TokFunctionExpression ==
    <<Op("VAR", 1), Ident("f", 1), Op("EQUAL", 1), Op("FUN", 1), Op("LEFT_PAREN", 1),
      Op("RIGHT_PAREN", 1), Op("LEFT_BRACE", 1), Op("RIGHT_BRACE", 1),
      Op("SEMICOLON", 1), Op("EOF", 1)>>

\* the source texts given to the scanner and the parser alone: a kind and,
\* for the two lists, a length
TokenInputs ==
    [kind : {"parameters", "arguments"}, n : 0..MaxList]
    \cup [kind : {"anonymous", "anonymous in block", "named", "function expression"},
          n : {0}]

\* scanner.py:110-117: the tokens the scanner makes of the text
Tokens(input) ==
    CASE input.kind = "parameters" -> ParametersTokens(input.n)
      [] input.kind = "arguments" -> ArgumentsTokens(input.n)
      [] input.kind = "anonymous" -> TokAnonymous
      [] input.kind = "anonymous in block" -> TokAnonymousInBlock
      [] input.kind = "named" -> TokNamed
      [] input.kind = "function expression" -> TokFunctionExpression

\* main.py:20-22, 26: Lox.run is called with the text
RunTokens(input) ==
    /\ pc = "start"
    /\ mode' = "file"
    /\ BeginRun(input)

\* main.py:27-30, with Lox.report (main.py:64-66) for each syntax error
ParseInput ==
    /\ pc = "run"
    /\ LET ps == parse(Parser(Tokens(src)))
       IN /\ statements' = ps.val
          /\ has_error' = (has_error \/ ps.reports # <<>>)
          /\ stderr' = stderr \o [i \in 1..Len(ps.reports) |-> ps.reports[i].message]
          /\ trace' = [trace EXCEPT !.syntax_reports = Len(ps.reports)]
    /\ pc' = "parsed"
    /\ UNCHANGED <<mode, run, src, next, has_runtime_error, heap, environment, locals,
                   nobj, stdout, exit_status, crash>>

NextParser ==
    \/ \E input \in TokenInputs : RunTokens(input)
    \/ ParseInput

ParserSpec == Init /\ [][NextParser]_vars

(* ----------------------- the resolver on its own ---------------------- *)

\* the statement lists of at most n elements of S
ListsUpTo(S, n) == UNION {[1..k -> S] : k \in 0..n}

\* var a;   var b;
VarDeclarations == {Var(Ident(name, 1), None) : name \in {"a", "b"}}

\* the bodies of the functions and of the innermost blocks: {},
\* { var a; var a; } and { var a; var b; }
InnerBodies ==
    {<<>>,
     <<Var(Ident("a", 1), None), Var(Ident("a", 1), None)>>,
     <<Var(Ident("a", 1), None), Var(Ident("b", 1), None)>>}

\* the bodies of the blocks that hold a block or a function:
\* { var a; { var a; } }, { fun a() {} fun a() {} } and
\* { var a; fun a(a) { var b; } }
OuterBodies ==
    {<<Var(Ident("a", 1), None), Block(<<Var(Ident("a", 1), None)>>)>>,
     <<Function(Ident("a", 1), <<>>, <<>>), Function(Ident("a", 1), <<>>, <<>>)>>,
     <<Var(Ident("a", 1), None),
       Function(Ident("a", 1), <<Ident("a", 1)>>, <<Var(Ident("b", 1), None)>>)>>}

\* (a), (a, a)
ParameterLists == {<<Ident("a", 1)>>, <<Ident("a", 1), Ident("a", 1)>>}

\* variable declarations, blocks and function declarations
Declarations ==
    VarDeclarations
    \cup {Block(body) : body \in InnerBodies \cup OuterBodies}
    \cup {Function(Ident("a", 1), params, body) :
             params \in ParameterLists, body \in InnerBodies}

\* what the parser hands to the resolver
Programs == ListsUpTo(Declarations, MaxDeclarations)

\* main.py:27-30: Lox.run has parsed the program without a report
ParsedProgram(program) ==
    /\ pc = "start"
    /\ mode' = "file"
    /\ run' = run + 1
    /\ statements' = program
    /\ pc' = "parsed"
    /\ UNCHANGED <<src, next, has_error, has_runtime_error, heap, environment, locals,
                   nobj, stdout, stderr, exit_status, crash, trace>>

NextResolver ==
    \/ \E program \in Programs : ParsedProgram(program)
    \/ Resolve

ResolverSpec == Init /\ [][NextResolver]_vars

(* --------------------- the environments on their own ------------------ *)

\* In this specification trace is the list of the enclosing environments
\* the environments were given when they were made, and crash tells how
\* the last operation ended.

\* interpreter.py:48-49: the global environment, made without an enclosing
\* one
InitEnvironments ==
    /\ pc = "start"
    /\ mode = "none"
    /\ run = 0
    /\ src = ""
    /\ statements = <<>>
    /\ next = 0
    /\ has_error = FALSE
    /\ has_runtime_error = FALSE
    /\ heap = <<[enclosing |-> NoEnv, values |-> ("clock" :> Clock)]>>
    /\ environment = global_env
    /\ locals = EmptyDict
    /\ nobj = 0
    /\ stdout = <<>>
    /\ stderr = <<>>
    /\ exit_status = -1
    /\ crash = "none"
    /\ trace = <<NoEnv>>

\* the names and the values the operations are called with
EnvironmentNames == {Ident("a", 1)}

EnvironmentValues == {Num(1), Num(2)}

\* environment.py:11-13
NewEnvironment(enclosing) ==
    /\ Len(heap) < MaxEnvironments + 1
    /\ heap' = Append(heap, Environment(enclosing))
    /\ trace' = Append(trace, enclosing)
    /\ crash' = "none"
    /\ UNCHANGED <<pc, mode, run, src, statements, next, has_error, has_runtime_error,
                   environment, locals, nobj, stdout, stderr, exit_status>>

\* environment.py:24-25
Define(env, name, value) ==
    /\ heap' = Environment_define(heap, env, name, value)
    /\ crash' = "none"
    /\ UNCHANGED <<pc, mode, run, src, statements, next, has_error, has_runtime_error,
                   environment, locals, nobj, stdout, stderr, exit_status, trace>>

\* environment.py:35-44
AssignTo(env, name, value) ==
    /\ IF RecursionError(heap, env, name, Len(heap))
       THEN crash' = "RecursionError" /\ UNCHANGED heap
       ELSE LET r == Environment_assign(heap, env, name, value)
            IN /\ crash' = IF r.sig = "normal" THEN "none" ELSE r.sig
               /\ heap' = IF r.sig = "normal" THEN r.heap ELSE heap
    /\ UNCHANGED <<pc, mode, run, src, statements, next, has_error, has_runtime_error,
                   environment, locals, nobj, stdout, stderr, exit_status, trace>>

\* environment.py:27-33
Get(env, name) ==
    /\ crash' = IF RecursionError(heap, env, name, Len(heap)) THEN "RecursionError"
                ELSE LET r == Environment_get(heap, env, name)
                     IN IF r.sig = "normal" THEN "none" ELSE r.sig
    /\ UNCHANGED <<pc, mode, run, src, statements, next, has_error, has_runtime_error, heap,
                   environment, locals, nobj, stdout, stderr, exit_status, trace>>

\* environment.py:15-22
SetGlobal(self, env) ==
    /\ LET r == Environment_set_global(heap, self, env, Len(heap))
       IN /\ crash' = IF r.sig = "normal" THEN "none" ELSE r.sig
          /\ heap' = r.heap
    /\ UNCHANGED <<pc, mode, run, src, statements, next, has_error, has_runtime_error,
                   environment, locals, nobj, stdout, stderr, exit_status, trace>>

NextEnvironments ==
    \/ \E enclosing \in {NoEnv} \cup DOMAIN heap : NewEnvironment(enclosing)
    \/ \E env \in DOMAIN heap, name \in EnvironmentNames, value \in EnvironmentValues :
          Define(env, name, value)
    \/ \E env \in DOMAIN heap, name \in EnvironmentNames, value \in EnvironmentValues :
          AssignTo(env, name, value)
    \/ \E env \in DOMAIN heap, name \in EnvironmentNames : Get(env, name)
    \/ \E self \in DOMAIN heap, env \in DOMAIN heap : SetGlobal(self, env)

EnvironmentSpec == InitEnvironments /\ [][NextEnvironments]_vars

(* ------------------------------- scanner ------------------------------ *)

\* The source text is the sequence of its characters, each a string of
\* length one. start and current count the characters before the place
\* they point to, as the indices of Python do.

\* what peek and peek_next return at the end of the text ("\0")
NUL == "NUL"

\* scanner.py:78-95
keywords ==
    [and |-> "AND", class |-> "CLASS", else |-> "ELSE", false |-> "FALSE", fun |-> "FUN",
     for |-> "FOR", if |-> "IF", nil |-> "NIL", or |-> "OR", print |-> "PRINT",
     return |-> "RETURN", super |-> "SUPER", this |-> "THIS", true |-> "TRUE",
     var |-> "VAR", while |-> "WHILE"]

\* scanner.py:102-108; spans is the history of the values of start and
\* current at which the tokens were added
Scanner(source) ==
    [source |-> source, tokens |-> <<>>, start |-> 0, current |-> 0, line |-> 1,
     reports |-> <<>>, spans |-> <<>>]

\* Python's source[from:to]
Slice(source, from, to) == SubSeq(source, from + 1, to)

\* the string the characters make
RECURSIVE Text(_)
Text(chars) == IF chars = <<>> THEN "" ELSE Head(chars) \o Text(Tail(chars))

\* scanner.py:237-239
is_digit(c) == c \in {"0", "1", "2", "3", "4", "5", "6", "7", "8", "9"}

\* scanner.py:241-243
is_alpha(c) ==
    c \in {"a", "b", "c", "d", "e", "f", "g", "h", "i", "j", "k", "l", "m", "n", "o", "p",
           "q", "r", "s", "t", "u", "v", "w", "x", "y", "z",
           "A", "B", "C", "D", "E", "F", "G", "H", "I", "J", "K", "L", "M", "N", "O", "P",
           "Q", "R", "S", "T", "U", "V", "W", "X", "Y", "Z", "_"}

\* scanner.py:245-247
is_alphanumeric(c) == is_alpha(c) \/ is_digit(c)

\* scanner.py:249-251
is_end(sc) == sc.current >= Len(sc.source)

\* scanner.py:174-176: the state after advance(); the character it returns
\* is the one peek saw before
Scanner_advance(sc) == [sc EXCEPT !.current = @ + 1]

\* scanner.py:186-189
Scanner_peek(sc) == IF is_end(sc) THEN NUL ELSE sc.source[sc.current + 1]

\* scanner.py:191-194
peek_next(sc) ==
    IF sc.current + 1 >= Len(sc.source) THEN NUL ELSE sc.source[sc.current + 2]

\* scanner.py:178-184: whether match(expected) returns True; the caller
\* then goes on from Scanner_advance(sc)
Scanner_match(sc, expected) == ~is_end(sc) /\ sc.source[sc.current + 1] = expected

\* scanner.py:196-198, for a token without a literal
add_token(sc, type) ==
    [sc EXCEPT !.tokens = Append(@, Token(type, Text(Slice(sc.source, sc.start, sc.current)),
                                          sc.line)),
               !.spans = Append(@, [start |-> sc.start, current |-> sc.current])]

\* scanner.py:196-198, for a token with a literal
add_literal(sc, type, literal) ==
    [sc EXCEPT !.tokens = Append(@, [type |-> type,
                                     lexeme |-> Text(Slice(sc.source, sc.start, sc.current)),
                                     line |-> sc.line, literal |-> literal]),
               !.spans = Append(@, [start |-> sc.start, current |-> sc.current])]

\* scanner.py:143-149: a token of one character, or of two when the next
\* character is `=`
one_or_two(sc, two, one) ==
    IF Scanner_match(sc, "=") THEN add_token(Scanner_advance(sc), two)
    ELSE add_token(sc, one)

\* scanner.py:152-153
RECURSIVE line_comment(_)
line_comment(sc) ==
    IF Scanner_peek(sc) # "\n" /\ ~is_end(sc) THEN line_comment(Scanner_advance(sc))
    ELSE sc

\* scanner.py:155-157
RECURSIVE block_comment(_)
block_comment(sc) ==
    IF ~(Scanner_peek(sc) = "*" /\ peek_next(sc) = "/") /\ ~is_end(sc)
    THEN block_comment(Scanner_advance(sc))
    ELSE [sc EXCEPT !.current = @ + 2]

\* scanner.py:201-204
RECURSIVE string_loop(_)
string_loop(sc) ==
    IF Scanner_peek(sc) # "\"" /\ ~is_end(sc)
    THEN string_loop(Scanner_advance(IF Scanner_peek(sc) = "\n"
                                     THEN [sc EXCEPT !.line = @ + 1]
                                     ELSE sc))
    ELSE sc

\* scanner.py:200-213
string(sc) ==
    LET closing(s1) ==
            IF is_end(s1) THEN report(s1, s1.line, "", "Unterminated string.")
            ELSE add_literal(Scanner_advance(s1), "STRING",
                             Str(Text(Slice(s1.source, s1.start + 1, s1.current))))
    IN closing(string_loop(sc))

\* the number a sequence of digits stands for
RECURSIVE Decimal(_)
Decimal(digits) ==
    IF digits = <<>> THEN 0
    ELSE 10 * Decimal(SubSeq(digits, 1, Len(digits) - 1))
         + (CHOOSE d \in 0..9 : ToString(d) = digits[Len(digits)])

\* the digits without the zeros at their end
RECURSIVE Significant(_)
Significant(digits) ==
    IF digits # <<>> /\ digits[Len(digits)] = "0"
    THEN Significant(SubSeq(digits, 1, Len(digits) - 1))
    ELSE digits

\* Python's float() on digits with an optional fraction: an integer when
\* the fraction is absent or zero, else the whole part and the significant
\* digits of the fraction
float(chars) ==
    LET dot == IF \E k \in DOMAIN chars : chars[k] = "."
               THEN CHOOSE k \in DOMAIN chars : chars[k] = "."
               ELSE Len(chars) + 1
        whole == Decimal(SubSeq(chars, 1, dot - 1))
        fraction == Significant(SubSeq(chars, dot + 1, Len(chars)))
    IN IF fraction = <<>> THEN whole ELSE [whole |-> whole, fraction |-> Text(fraction)]

\* scanner.py:216-217, 222-223
RECURSIVE digits_loop(_)
digits_loop(sc) ==
    IF is_digit(Scanner_peek(sc)) THEN digits_loop(Scanner_advance(sc)) ELSE sc

\* scanner.py:215-225
number(sc) ==
    LET fraction(s1) ==
            IF Scanner_peek(s1) = "." /\ is_digit(peek_next(s1))
            THEN digits_loop(Scanner_advance(s1))
            ELSE s1
        token(s2) ==
            add_literal(s2, "NUMBER", Num(float(Slice(s2.source, s2.start, s2.current))))
    IN token(fraction(digits_loop(sc)))

\* scanner.py:228-229
RECURSIVE identifier_loop(_)
identifier_loop(sc) ==
    IF is_alphanumeric(Scanner_peek(sc)) THEN identifier_loop(Scanner_advance(sc)) ELSE sc

\* scanner.py:227-235
identifier(sc) ==
    LET token(s1, text) ==
            IF text \in DOMAIN keywords THEN add_token(s1, keywords[text])
            ELSE add_token(s1, "IDENTIFIER")
        named(s1) == token(s1, Text(Slice(s1.source, s1.start, s1.current)))
    IN named(identifier_loop(sc))

\* scanner.py:150-159, after the first `/`
slash(sc) ==
    IF Scanner_match(sc, "/") THEN line_comment(Scanner_advance(sc))
    ELSE IF Scanner_match(sc, "*") THEN block_comment(Scanner_advance(sc))
    ELSE add_token(sc, "SLASH")

\* scanner.py:119-172, after `c = self.advance()`
scan_character(c, sc) ==
    CASE c = "(" -> add_token(sc, "LEFT_PAREN")
      [] c = ")" -> add_token(sc, "RIGHT_PAREN")
      [] c = "{" -> add_token(sc, "LEFT_BRACE")
      [] c = "}" -> add_token(sc, "RIGHT_BRACE")
      [] c = "," -> add_token(sc, "COMMA")
      [] c = "." -> add_token(sc, "DOT")
      [] c = "-" -> add_token(sc, "MINUS")
      [] c = "+" -> add_token(sc, "PLUS")
      [] c = ";" -> add_token(sc, "SEMICOLON")
      [] c = "*" -> add_token(sc, "STAR")
      [] c = "!" -> one_or_two(sc, "BANG_EQUAL", "BANG")
      [] c = "=" -> one_or_two(sc, "EQUAL_EQUAL", "EQUAL")
      [] c = "<" -> one_or_two(sc, "LESS_EQUAL", "LESS")
      [] c = ">" -> one_or_two(sc, "GREATER_EQUAL", "GREATER")
      [] c = "/" -> slash(sc)
      [] c \in {" ", "\r", "\t"} -> sc
      [] c = "\n" -> [sc EXCEPT !.line = @ + 1]
      [] c = "\"" -> string(sc)
      [] OTHER -> IF is_digit(c) THEN number(sc)
                  ELSE IF is_alpha(c) THEN identifier(sc)
                  ELSE report(sc, sc.line, "", "Unexpected character")

\* scanner.py:119-120
scan_token(sc) == scan_character(Scanner_peek(sc), Scanner_advance(sc))

\* scanner.py:111-113
RECURSIVE scan_loop(_)
scan_loop(sc) ==
    IF ~is_end(sc) THEN scan_loop(scan_token([sc EXCEPT !.start = sc.current])) ELSE sc

\* scanner.py:110-117; the EOF token stands after the last character
scan_tokens(sc) ==
    LET eof(s1) ==
            [s1 EXCEPT !.tokens = Append(@, Token("EOF", "", s1.line)),
                       !.spans = Append(@, [start |-> Len(s1.source),
                                            current |-> Len(s1.source)])]
    IN eof(scan_loop(sc))

(* ------------------------ the scanner on its own ---------------------- *)

\* In this specification src is the text as a sequence of characters,
\* statements the list of tokens Scanner.scan_tokens returned and trace the
\* list of the places of these tokens in the text.

\* the characters of the source texts: a newline, what begins and ends
\* comments and strings, two letters that make a keyword, and a digit
Alphabet == {"\n", "/", "*", "\"", "o", "r", "1"}

Texts == ListsUpTo(Alphabet, MaxChars)

\* main.py:20-22, 26: Lox.run is called with the text
RunText(text) ==
    /\ pc = "start"
    /\ mode' = "file"
    /\ BeginRun(text)

\* main.py:27-28, with Lox.report (main.py:64-66) for each complaint
ScanSource ==
    /\ pc = "run"
    /\ LET sc == scan_tokens(Scanner(src))
       IN /\ statements' = sc.tokens
          /\ trace' = sc.spans
          /\ has_error' = (has_error \/ sc.reports # <<>>)
          /\ stderr' = stderr \o [i \in 1..Len(sc.reports) |-> sc.reports[i].message]
    /\ pc' = "scanned"
    /\ UNCHANGED <<mode, run, src, next, has_runtime_error, heap, environment, locals,
                   nobj, stdout, exit_status, crash>>

NextScanner ==
    \/ pc = "start" /\ \E text \in Texts : RunText(text)
    \/ ScanSource

ScannerSpec == Init /\ [][NextScanner]_vars

(* ----------------------------- properties ----------------------------- *)

Ended == pc \in {"exited", "crashed"}

\* a script whose run is over
FileEnded(script) == mode = "file" /\ src = script /\ Ended

\* C1: evaluating a Variable or Assign node for which the resolver recorded
\* a distance completes with a value or a Lox runtime error, never with an
\* internal failure, and a node without a recorded distance is read or
\* written in the global environment.
C1_ResolvedAccessCompletes ==
    \A i \in DOMAIN trace.accesses :
        LET a == trace.accesses[i]
        IN /\ a.distance >= 0 => a.sig \in {"normal", "LoxRuntimeError"}
           /\ a.distance = -1 => a.environment = global_env

\* C2: the k-th call of the counter returned by make() prints k, and two
\* counters made by two calls of make() count apart.
C2_ClosureCounts ==
    /\ FileEnded("counter") => crash = "none" /\ stdout = <<"1", "2", "3">>
    /\ FileEnded("counters") => crash = "none" /\ stdout = <<"1", "2", "1">>

\* C3: both calls of show print "global": the variable declared later in
\* the enclosing block does not change what the function body reads.
C3_StaticBinding ==
    FileEnded("static") => crash = "none" /\ stdout = <<"global", "global">>

\* C4: every execution of execute_block leaves Interpreter.environment the
\* environment it was before, however the block was left, and between the
\* statements of interpret the environment is the global one.
C4_BlockScopeLIFO ==
    /\ \A i \in DOMAIN trace.blocks : trace.blocks[i].after = trace.blocks[i].before
    /\ environment = global_env

C4_Witness ==
    /\ \E i \in DOMAIN trace.blocks : trace.blocks[i].how = "normal"
    /\ \E i \in DOMAIN trace.blocks : trace.blocks[i].how = "ReturnError"
    /\ \E i \in DOMAIN trace.blocks : trace.blocks[i].how = "LoxRuntimeError"
    /\ \A i \in DOMAIN trace.blocks : trace.blocks[i].inside # trace.blocks[i].before

\* C5: in a run where the scanner or the parser reported an error the
\* resolver is not invoked and no statement is executed; in a run where the
\* resolver reported an error no statement is executed; and the resolver
\* goes on after a report (it reports both errors of
\* `{ var a = a; } return 1; print 3;`).
C5_PipelineGated ==
    /\ trace.syntax_reports > 0 =>
          trace.resolver_runs = 0 /\ ~trace.interpreted /\ trace.executed = 0
    /\ trace.resolve_reports > 0 => ~trace.interpreted /\ trace.executed = 0
    /\ src = "twoerrors" /\ trace.resolver_runs > 0 => trace.resolve_reports = 2

C5_Witness ==
    /\ pc = "ran"
    /\ trace.resolve_reports = 2
    /\ trace.executed = 0
    /\ trace.earlier_error

\* C6: a call that a return signal ended has the value the signal carried
\* as its result, and the signal was raised in that very call (not in a
\* deeper one, and never past it); a call whose body completed has the
\* result nil; the caller goes on after the call.
C6_ReturnUnwindsToCall ==
    /\ \A i \in DOMAIN trace.calls :
          LET c == trace.calls[i]
          IN /\ c.how = "ReturnError" =>
                   c.caught /\ c.result = c.returned.value /\ c.returned.depth = c.depth
             /\ c.how = "normal" => c.caught /\ c.result = Nil
    /\ crash # "ReturnError"
    /\ FileEnded("return") => stdout = <<"7", "2">>
    /\ FileEnded("nested") => stdout = <<"5", "nil", "1">>
    /\ FileEnded("noreturn") => stdout = <<"1", "nil">>

C6_Witness ==
    /\ FileEnded("return")
    /\ Len(trace.calls) = 1
    /\ trace.calls[1].how = "ReturnError"
    /\ trace.calls[1].result = Num(7)
    /\ Len(trace.blocks) = 3

\* C7: the REPL reads a line only with the error flag false, and a line
\* that itself reports no error is interpreted, whatever earlier lines
\* reported.
C7_ReplFlagCleared ==
    /\ pc = "prompt" => ~has_error
    /\ mode = "repl" /\ pc = "ran" /\ trace.syntax_reports + trace.resolve_reports = 0
          => trace.interpreted /\ trace.executed > 0

C7_Witness ==
    /\ mode = "repl"
    /\ pc = "ran"
    /\ trace.earlier_error
    /\ trace.interpreted
    /\ trace.executed = Len(statements)
    /\ ~has_error

\* C8: once a runtime error was raised in a run no statement is begun, the
\* error is reported once, with the line of its token, the runtime-error
\* flag is set and interpret is over.
C8_RuntimeErrorEndsRun ==
    /\ trace.late = 0
    /\ trace.runtime_reports = trace.raised
    /\ Len(trace.raised) <= 1
    /\ trace.raised # <<>> => has_runtime_error /\ pc \in {"ran", "prompt", "exited"}
    /\ FileEnded("undefined") => trace.runtime_reports = <<2>> /\ stdout = <<"1">>

C8_Witness ==
    /\ FileEnded("blocks")
    /\ trace.raised = <<2>>
    /\ trace.calls[Len(trace.calls)].how = "LoxRuntimeError"
    /\ trace.executed = 5
    /\ stdout = <<"1">>

\* what C9 calls an error: a report of the scanner, the parser, the
\* resolver or of Lox.runtime_error in the run
LoxErrorOccurred ==
    trace.syntax_reports + trace.resolve_reports > 0 \/ trace.runtime_reports # <<>>

\* C9: a script ends with status 0 exactly when no lexical, syntax,
\* resolution or runtime error occurred.
C9_ExitStatus ==
    mode = "file" /\ exit_status # -1 => (exit_status = 0 <=> ~LoxErrorOccurred)

\* C10: `var f = fun (x) { return x; }; f(1);` passes resolution, f is a
\* function, not nil, and f(1) calls it.
C10_FunctionExpression ==
    FileEnded("funexpr") =>
        /\ crash = "none"
        /\ "f" \in DOMAIN heap[global_env].values
        /\ heap[global_env].values["f"].tag = "fn"
        /\ Len(trace.calls) = 1

\* the global variables once the script is over
Globals == heap[global_env].values

\* C11: equality is by tag and then by content: nil equals only nil and two
\* values of different types are never equal, so `true == 1`, `false == 0`,
\* `1 == "1"` and `nil == false` are false, `true != 1` is true, and
\* `nil == nil`, `"a" == "a"` and `1 == 1` are true.
C11_EqualityByTag ==
    FileEnded("equality") =>
        /\ crash = "none"
        /\ Globals["r"] = Bool(FALSE)
        /\ Globals["s"] = Bool(FALSE)
        /\ Globals["t"] = Bool(TRUE)
        /\ Globals["u"] = Bool(FALSE)
        /\ Globals["v"] = Bool(FALSE)
        /\ Globals["w"] = Bool(TRUE)
        /\ Globals["x"] = Bool(TRUE)
        /\ Globals["y"] = Bool(TRUE)

\* C12: print writes nil as `nil`, the booleans as the lowercase `true` and
\* `false`, a whole number as its digits and a string as itself.
C12_Stringify ==
    FileEnded("stringify") => stdout = <<"nil", "true", "false", "3", "hi">>

\* C13: a bare `;` is accepted by the parser (an Expression statement
\* without an expression, no report), by the resolver and by the evaluator,
\* and executing it is a no-op: `; print 1;` reports nothing, changes no
\* state, prints 1 and ends with status 0.
C13_BareSemicolon ==
    /\ src = "semicolon" /\ pc \notin {"start", "run"} =>
          statements[1] = Expression(None) /\ trace.syntax_reports = 0
    /\ FileEnded("semicolon") =>
          /\ crash = "none"
          /\ stderr = <<>>
          /\ trace.executed = 2
          /\ stdout = <<"1">>
          /\ heap = <<[enclosing |-> NoEnv, values |-> ("clock" :> Clock)]>>
          /\ exit_status = 0

\* the reports of the parser that say `text`
Reported(text) == \E i \in DOMAIN stderr : stderr[i] = text

\* C14: a parameter list or an argument list of length n is reported as
\* having more than 255 entries exactly when n > 255, and the report does
\* not end the parse of the list: the function has its n parameters and the
\* call its n arguments.
C14_ListLimit ==
    pc = "parsed" =>
        /\ src.kind = "parameters" =>
              /\ Reported("Can't have more than 255 parameters.") <=> src.n > 255
              /\ Len(statements) = 1
              /\ ~IsNone(statements[1])
              /\ Len(statements[1].params) = src.n
        /\ src.kind = "arguments" =>
              /\ Reported("Can't have more than 255 arguments.") <=> src.n > 255
              /\ Len(statements) = 1
              /\ ~IsNone(statements[1])
              /\ Len(statements[1].expression.arguments) = src.n

RECURSIVE AnonymousDeclaration(_)
\* a Function statement without a name among the statements, at any depth
AnonymousDeclaration(stmts) ==
    \E i \in DOMAIN stmts :
        LET stmt == stmts[i]
        IN CASE stmt.type = "Function" ->
                    IsNone(stmt.name) \/ AnonymousDeclaration(stmt.body)
             [] stmt.type = "Block" -> AnonymousDeclaration(stmt.statements)
             [] stmt.type = "While" -> AnonymousDeclaration(<<stmt.body>>)
             [] stmt.type = "If" ->
                    AnonymousDeclaration(<<stmt.then_branch, stmt.else_branch>>)
             [] OTHER -> FALSE

\* C15: a text that begins with `fun (` is reported as a syntax error, and
\* the parser never makes a Function statement without a name.
C15_DeclarationNeedsName ==
    pc = "parsed" =>
        /\ Tokens(src)[1].type = "FUN" /\ Tokens(src)[2].type = "LEFT_PAREN" =>
              trace.syntax_reports > 0
        /\ ~AnonymousDeclaration(statements)

\* the number of elements of a list that repeat an earlier element
Repeats(names) ==
    Cardinality({i \in DOMAIN names : \E j \in 1..(i - 1) : names[j] = names[i]})

\* the names a local scope declares, in order: the parameters, then the
\* variables and functions declared by the statements of its body
DeclaredNames(params, body) ==
    LET declarations == SelectSeq(body, LAMBDA s : s.type \in {"Var", "Function"})
    IN [i \in DOMAIN params |-> params[i].lexeme]
       \o [i \in DOMAIN declarations |-> declarations[i].name.lexeme]

RECURSIVE SecondDeclarations(_, _)
RECURSIVE LocalSecondDeclarations(_)

\* the number of declarations, in the local scopes opened by the
\* statements of a list, of a name that the same scope declared before
LocalSecondDeclarations(body) ==
    IF body = <<>> THEN 0
    ELSE LET first == Head(body)
         IN (IF first.type = "Block"
             THEN SecondDeclarations(<<>>, first.statements)
             ELSE IF first.type = "Function"
             THEN SecondDeclarations(first.params, first.body)
             ELSE 0)
            + LocalSecondDeclarations(Tail(body))

\* the same for one local scope and the scopes inside it
SecondDeclarations(params, body) ==
    Repeats(DeclaredNames(params, body)) + LocalSecondDeclarations(body)

\* C16: the resolver reports "Already a variable with this name in this
\* scope." once for every declaration of a name that the same local scope
\* declared before, and for nothing else (not for a second declaration at
\* global level, not for a name of an enclosing scope); when resolve has
\* finished the scope stack is empty.
C16_SecondDeclaration ==
    pc = "resolved" =>
        /\ Cardinality({i \in DOMAIN stderr :
                           stderr[i] = "Already a variable with this name in this scope."})
              = LocalSecondDeclarations(statements)
        /\ Len(stderr) = trace.resolve_reports
        /\ resolve_list(statements, Resolver).scopes = <<>>

C16_Witness ==
    /\ pc = "resolved"
    /\ statements = <<Var(Ident("a", 1), None),
                      Function(Ident("a", 1), <<Ident("a", 1), Ident("a", 1)>>,
                               <<Var(Ident("a", 1), None), Var(Ident("b", 1), None)>>)>>
    /\ trace.resolve_reports = 2
    /\ has_error

\* the statement the parser makes of a for statement with the given clauses
ForStatement(clauses) ==
    ParseTokens(ForTokens(clauses) \o <<Op("EOF", 1)>>).statements[1]

\* the While node in it
ForLoop(clauses) ==
    IF clauses.initializer THEN ForStatement(clauses).statements[2]
    ELSE ForStatement(clauses)

\* C17: a for statement becomes Block[init, While(cond, Block[body,
\* Expression(increment)])], with the inner block iff an increment is
\* written, the literal true as condition iff no condition is written and
\* the outer block iff an initializer is written; the loop
\* `for (var i = 0; i < 3; i = i + 1) print i;` prints 0, 1, 2 and i is
\* not defined after it.
C17_ForDesugared ==
    /\ pc = "parsed" /\ src = "forloop" =>
          /\ \A clauses \in [initializer : BOOLEAN, condition : BOOLEAN, increment : BOOLEAN] :
                /\ IF clauses.initializer
                   THEN /\ ForStatement(clauses).type = "Block"
                        /\ Len(ForStatement(clauses).statements) = 2
                        /\ ForStatement(clauses).statements[1]
                              = Var(Ident("i", 1), Literal(Num(0)))
                   ELSE ForStatement(clauses).type = "While"
                /\ ForLoop(clauses).type = "While"
                /\ IF clauses.condition
                   THEN ForLoop(clauses).condition.type = "Binary"
                   ELSE ForLoop(clauses).condition = Literal(Bool(TRUE))
                /\ IF clauses.increment
                   THEN /\ ForLoop(clauses).body.type = "Block"
                        /\ Len(ForLoop(clauses).body.statements) = 2
                        /\ ForLoop(clauses).body.statements[1].type = "Print"
                        /\ ForLoop(clauses).body.statements[2].type = "Expression"
                        /\ ForLoop(clauses).body.statements[2].expression.type = "Assign"
                   ELSE ForLoop(clauses).body.type = "Print"
          /\ statements[1] = ForStatement([initializer |-> TRUE, condition |-> TRUE,
                                           increment |-> TRUE])
    /\ FileEnded("forloop") =>
          /\ crash = "none"
          /\ stdout = <<"0", "1", "2">>
          /\ trace.runtime_reports = <<2>>

\* C18: a division by zero raises no error of any kind: it yields a number
\* (an infinity or NaN), which `print 1 / 0;` writes, and the statements
\* after it are executed.
C18_DivisionByZero ==
    FileEnded("divzero") =>
        /\ crash = "none"
        /\ trace.runtime_reports = <<>>
        /\ ~has_runtime_error
        /\ trace.executed = 2
        /\ Len(stdout) = 2
        /\ stdout[1] \in {"inf", "-inf", "nan"}
        /\ stdout[2] = "2"
        /\ exit_status = 0

RECURSIVE ReachesRoot(_, _, _)
\* whether following the enclosing links from env ends, within the given
\* number of steps, at an environment without enclosing one
ReachesRoot(hp, env, steps) ==
    IF hp[env].enclosing = NoEnv THEN TRUE
    ELSE IF steps = 0 THEN FALSE
    ELSE ReachesRoot(hp, hp[env].enclosing, steps - 1)

\* C19: whatever operations were made, every environment has the enclosing
\* environment it was given when it was made, and the enclosing links from
\* it lead to an environment without enclosing one: there is no cycle.
C19_ParentFixed ==
    \A env \in DOMAIN heap :
        /\ heap[env].enclosing = trace[env]
        /\ ReachesRoot(heap, env, Len(heap))

\* C20: in a REPL session, when a line calls a function that an earlier
\* line declared, the body runs with the distances the resolver recorded
\* for it: the parameter is read from the environment of the call, the
\* call returns its argument and nothing fails.
C20_ReplKeepsDistances ==
    mode = "repl" /\ src = "callid" /\ "id" \in DOMAIN Globals /\ pc \in {"ran", "crashed"} =>
        /\ crash = "none"
        /\ trace.runtime_reports = <<>>
        /\ \A i \in DOMAIN trace.accesses :
              trace.accesses[i].name = "a" =>
                  trace.accesses[i].sig = "normal" /\ trace.accesses[i].distance = 0
        /\ stdout # <<>>
        /\ stdout[Len(stdout)] = "3"

\* the number of newline characters among the first n characters
Newlines(source, n) == Cardinality({k \in 1..n : source[k] = "\n"})

\* whether the token added at the span contains a newline
HasNewline(source, span) == \E k \in span.start + 1 .. span.current : source[k] = "\n"

\* C21: the line of every token that does not itself contain a newline,
\* and of the final EOF token, is 1 plus the number of newline characters
\* before it in the source, whether these stand between tokens, in line
\* comments, in block comments or in string literals.
C21_LineOfToken ==
    pc = "scanned" =>
        \A i \in DOMAIN statements :
            ~HasNewline(src, trace[i]) =>
                statements[i].line = 1 + Newlines(src, trace[i].start)

====
